---------------------------- MODULE Spec2Model ----------------------------
(***************************************************************************)
(* Model of scripts/build_mj_inputs.py (EDINET annual TSV -> modified      *)
(* Jones model inputs).                                                    *)
(*                                                                         *)
(* Text is modelled as a sequence of glyph tokens (one string per glyph;   *)
(* the two multi-letter placeholders "nan" and "None" are single tokens).  *)
(* Japanese literals of the source are written in ASCII:                   *)
(*   units      "yen" (U+5186), "sen_yen" (thousand), "hyakuman_yen"       *)
(*              (million), "oku_yen" (hundred million), "JPY"              *)
(*   glyphs     "FW_HYPHEN" U+FF0D, "HBAR" U+2015, "CHOON" U+30FC,         *)
(*              "MINUS" U+2212, "TRI_W" U+25B3, "TRI_B" U+25B2             *)
(*   periods    "Current" (touki), "Prior" (zenki), "CurrentEnd"           *)
(*              (touki-matsu), "PriorEnd" (zenki-matsu)                    *)
(*   kinds      "Duration" (kikan), "Instant" (jiten)                      *)
(*   scopes     "Consolidated" (renketsu), "NonConsolidated" (kobetsu)     *)
(*   columns    "ElementID", "RelativeYear", "PeriodType", "Scope",        *)
(*              "ContextID", "Value", "Unit"                               *)
(* An element id is the pair of its namespace prefix and its local name;   *)
(* a context id is a sequence of word tokens.                              *)
(* A Python float is modelled as an exact decimal m * 10^e kept in         *)
(* canonical form (m carries no trailing zero), plus the value nan.        *)
(***************************************************************************)
EXTENDS Bags, Integers, Sequences, FiniteSets, TLC

VARIABLES
    HAS_POLARS,              \* module flag set at import (polars or pandas build)
    pc,                      \* control point of the operation under way
    call,                    \* arguments of the function called
    ret,                     \* value the function returned
    company_dir,             \* the company's directory: its TSV files, in glob order
    metas,                   \* process_company: the eligible filings found by the scan
    non_japan_gaap_by_year,  \* process_company: wrong-standard reason of each year
    fy,                      \* process_company: loop variable of Phase B
    mj_inputs,               \* process_company: complete-case records
    missing_logs,            \* process_company: MissingLog entries
    duplicate_logs,          \* process_company: DuplicateLog entries
    rec_debug_logs,          \* process_company: RecDebugLog entries
    companies,               \* main: the target companies, in the order submitted
    num_workers,             \* main: args.num_workers, the size of the thread pool
    runs,                    \* main: the course of process_company on each company
    tasks,                   \* main: the process_one call of each future, with its locals
    consumed,                \* main: the futures as_completed has yielded so far
    all_mj_inputs,           \* main: aggregate of the complete-case records
    all_missing_logs,        \* main: aggregate of the MissingLog entries
    all_duplicate_logs,      \* main: aggregate of the DuplicateLog entries
    all_rec_debug_logs,      \* main: aggregate of the RecDebugLog entries
    warned,                  \* main: the companies a warning was issued for
    main_pc                  \* main: control point of the main thread

mainVars == <<companies, num_workers, runs, tasks, consumed, all_mj_inputs, all_missing_logs,
              all_duplicate_logs, all_rec_debug_logs, warned, main_pc>>

vars == <<HAS_POLARS, pc, call, ret, company_dir, metas, non_japan_gaap_by_year, fy,
          mj_inputs, missing_logs, duplicate_logs, rec_debug_logs, mainVars>>

procVars == <<company_dir, metas, non_japan_gaap_by_year, fy,
              mj_inputs, missing_logs, duplicate_logs, rec_debug_logs>>

-----------------------------------------------------------------------------
(* Bounds of the model *)

\* longest cell text given to normalize_value
MaxLen == 3

\* most TSV files in one company directory
MaxFiles == 3

\* most rows of a filing table given to the fact resolver
MaxRows == 3

-----------------------------------------------------------------------------
(* Optional[float] *)

None == [tag |-> "None", m |-> 0, e |-> 0]

NaN == [tag |-> "nan", m |-> 0, e |-> 0]

RECURSIVE Canon(_, _)
Canon(m, e) ==
    IF m = 0 THEN [tag |-> "float", m |-> 0, e |-> 0]
    ELSE IF m % 10 = 0 THEN Canon(m \div 10, e + 1)
    ELSE [tag |-> "float", m |-> m, e |-> e]

Float(n) == Canon(n, 0)

RECURSIVE Pow10(_)
Pow10(k) == IF k = 0 THEN 1 ELSE 10 * Pow10(k - 1)

\* mantissa of x at exponent e0 <= x.e
MantAt(x, e0) == IF x.m = 0 THEN 0 ELSE x.m * Pow10(x.e - e0)

MinExp(x, y) == IF x.m = 0 THEN y.e ELSE IF y.m = 0 THEN x.e
                ELSE IF x.e < y.e THEN x.e ELSE y.e

FNeg(x) == IF x.tag = "nan" THEN NaN ELSE Canon(0 - x.m, x.e)

FAdd(x, y) ==
    IF x.tag = "nan" \/ y.tag = "nan" THEN NaN
    ELSE LET e0 == MinExp(x, y) IN Canon(MantAt(x, e0) + MantAt(y, e0), e0)

FSub(x, y) == FAdd(x, FNeg(y))

\* x > y of Python floats: every comparison with nan is false
FGt(x, y) ==
    /\ x.tag = "float"
    /\ y.tag = "float"
    /\ LET e0 == MinExp(x, y) IN MantAt(x, e0) > MantAt(y, e0)

\* value * unit_multiplier, the multiplier being a power of ten 10^k
FMulPow10(x, k) == IF x.tag = "nan" THEN NaN ELSE Canon(x.m, x.e + k)

-----------------------------------------------------------------------------
(* Text *)

\* a null cell (Python None)
NULL == <<"<null>">>

Digits == {"0", "1", "2", "3", "4", "5", "6", "7", "8", "9"}

DigitVal == [c \in Digits |->
    CASE c = "0" -> 0 [] c = "1" -> 1 [] c = "2" -> 2 [] c = "3" -> 3 [] c = "4" -> 4
      [] c = "5" -> 5 [] c = "6" -> 6 [] c = "7" -> 7 [] c = "8" -> 8 [] c = "9" -> 9]

RECURSIVE DigitsToNat(_)
DigitsToNat(s) ==
    IF s = <<>> THEN 0
    ELSE 10 * DigitsToNat(SubSeq(s, 1, Len(s) - 1)) + DigitVal[s[Len(s)]]

StartsWith(s, c) == Len(s) >= 1 /\ s[1] = c

EndsWith(s, c) == Len(s) >= 1 /\ s[Len(s)] = c

\* str.strip(): whitespace removed at both ends
RECURSIVE Strip(_)
Strip(s) ==
    IF StartsWith(s, " ") THEN Strip(Tail(s))
    ELSE IF EndsWith(s, " ") THEN Strip(SubSeq(s, 1, Len(s) - 1))
    ELSE s

\* str.replace(",", "")
RemoveCommas(s) == SelectSeq(s, LAMBDA c : c # ",")

\* float(s): [ok |-> FALSE] stands for ValueError
\* the number of an unsigned text: nan, or decimal digits
PyFloatBody(body, neg) ==
    IF body = <<"nan">> THEN [ok |-> TRUE, val |-> NaN]
    ELSE IF body # <<>> /\ \A i \in 1..Len(body) : body[i] \in Digits
    THEN [ok |-> TRUE,
          val |-> IF neg THEN FNeg(Float(DigitsToNat(body)))
                  ELSE Float(DigitsToNat(body))]
    ELSE [ok |-> FALSE, val |-> None]

\* t is the text with its surrounding whitespace removed
PyFloatStripped(t) ==
    PyFloatBody(IF StartsWith(t, "-") \/ StartsWith(t, "+") THEN Tail(t) ELSE t,
                StartsWith(t, "-"))

\* float(s): [ok |-> FALSE] stands for ValueError
PyFloat(s) == PyFloatStripped(Strip(s))

-----------------------------------------------------------------------------
(* normalize_value *)

\* exponent of ten of each unit multiplier: 1, 1000, 1000000, 100000000, 1
UNIT_MAP ==
    [u \in {"yen", "sen_yen", "hyakuman_yen", "oku_yen", "JPY"} |->
        CASE u = "yen" -> 0 [] u = "sen_yen" -> 3 [] u = "hyakuman_yen" -> 6
          [] u = "oku_yen" -> 8 [] u = "JPY" -> 0]

\* a label outside the map taken for thousands
UnitExp_default_thousand(unit) == IF unit \in DOMAIN UNIT_MAP THEN UNIT_MAP[unit] ELSE 3

\* UNIT_MAP.get(unit, 1)
UnitExp(unit) == IF unit \in DOMAIN UNIT_MAP THEN UNIT_MAP[unit] ELSE 0

\* the missing-value patterns
Placeholders ==
    {<<>>, <<"FW_HYPHEN">>, <<"-">>, <<"HBAR">>, <<"CHOON">>, <<"MINUS">>,
     <<"nan">>, <<"None">>}

\* a dash cell taken for a zero amount
normalize_value_dash_zero(value_str, unit) ==
    IF value_str = NULL THEN None
    ELSE IF Strip(value_str) \in Placeholders THEN Float(0)
    ELSE None

\* an exception that leaves the function
Raised == [tag |-> "raise", m |-> 0, e |-> 0]

\* the ValueError of float() not caught
SignedAndScaled_uncaught(f, is_negative, unit) ==
    IF ~f.ok THEN Raised
    ELSE FMulPow10(IF is_negative THEN FNeg(f.val) ELSE f.val, UnitExp(unit))

\* the sign applied to the parsed number and the unit multiplier to the result;
\* f is what float() gave ("except (ValueError, TypeError): return None")
SignedAndScaled(f, is_negative, unit) ==
    IF ~f.ok THEN None
    ELSE FMulPow10(IF is_negative THEN FNeg(f.val) ELSE f.val, UnitExp(unit))

\* the negative notations of the text s1 left once the commas are removed
ParseAmount(s1, unit) ==
    LET paren == StartsWith(s1, "(") /\ EndsWith(s1, ")")
        tri == ~paren /\ (StartsWith(s1, "TRI_W") \/ StartsWith(s1, "TRI_B"))
    IN  SignedAndScaled(PyFloat(IF paren THEN SubSeq(s1, 2, Len(s1) - 1)
                                ELSE IF tri THEN Tail(s1)
                                ELSE s1),
                        paren \/ tri, unit)

\* s0 is the stripped cell text
NormalizeStripped(s0, unit) ==
    IF s0 \in Placeholders THEN None ELSE ParseAmount(RemoveCommas(s0), unit)

normalize_value(value_str, unit) ==
    IF value_str = NULL THEN None ELSE NormalizeStripped(Strip(value_str), unit)

-----------------------------------------------------------------------------
(* Python str comparison: lexicographic by code point *)

Ord == [c \in {" ", "-", ".", "/", "0", "1", "2", "3", "4", "5", "6", "7", "8", "9",
               ":", "E", "S", "s", "t", "v", "x"} |->
    CASE c = " " -> 32 [] c = "-" -> 45 [] c = "." -> 46 [] c = "/" -> 47
      [] c = "0" -> 48 [] c = "1" -> 49 [] c = "2" -> 50 [] c = "3" -> 51
      [] c = "4" -> 52 [] c = "5" -> 53 [] c = "6" -> 54 [] c = "7" -> 55
      [] c = "8" -> 56 [] c = "9" -> 57 [] c = ":" -> 58 [] c = "E" -> 69
      [] c = "S" -> 83 [] c = "s" -> 115 [] c = "t" -> 116 [] c = "v" -> 118
      [] c = "x" -> 120]

RECURSIVE StrLt(_, _)
StrLt(a, b) ==
    IF b = <<>> THEN FALSE
    ELSE IF a = <<>> THEN TRUE
    ELSE IF a[1] = b[1] THEN StrLt(Tail(a), Tail(b))
    ELSE Ord[a[1]] < Ord[b[1]]

-----------------------------------------------------------------------------
(* Path and TSVMetadata *)

\* company_dir / "<stem>.tsv"
Path(parent, stem) == [parent |-> parent, stem |-> stem]

\* Path.name
PathName(p) == p.stem \o <<".", "t", "s", "v">>

\* str(path)
PathStr(p) == p.parent \o <<"/">> \o PathName(p)

TSVMetadata(tsv_path, accounting_standard, fiscal_year, fiscal_year_start, fiscal_year_end, submit_datetime, has_ifrs_us_gaap) ==
    [tsv_path |-> tsv_path,
     edinet_code |-> tsv_path.parent,
     accounting_standard |-> accounting_standard,
     fiscal_year |-> fiscal_year,
     fiscal_year_start |-> fiscal_year_start,
     fiscal_year_end |-> fiscal_year_end,
     submit_datetime |-> submit_datetime,
     doc_id |-> tsv_path.stem,
     has_ifrs_us_gaap |-> has_ifrs_us_gaap]

-----------------------------------------------------------------------------
(* select_best_tsv *)

\* the text "nan"; under pandas it is the float nan, which is what read_csv
\* makes of an empty cell
NanCell == <<"nan">>

\* m.submit_datetime or ""
DtOrEmpty(m) == IF m.submit_datetime = NULL THEN <<>> ELSE m.submit_datetime

\* the key without its path component
SortKeyLt_dt_only(a, b) == StrLt(DtOrEmpty(a), DtOrEmpty(b))

\* the sort key (x[1], str(x[0].tsv_path)), compared as a tuple
SortKeyLt(a, b) ==
    \/ StrLt(DtOrEmpty(a), DtOrEmpty(b))
    \/ /\ DtOrEmpty(a) = DtOrEmpty(b)
       /\ StrLt(PathStr(a.tsv_path), PathStr(b.tsv_path))

\* the same sort without reverse=True: ascending, equal keys keep their order
RECURSIVE InsertAsc(_, _)
InsertAsc(sorted, x) ==
    IF sorted = <<>> THEN <<x>>
    ELSE IF SortKeyLt(x, sorted[Len(sorted)])
         THEN InsertAsc(SubSeq(sorted, 1, Len(sorted) - 1), x) \o <<sorted[Len(sorted)]>>
    ELSE sorted \o <<x>>

RECURSIVE SortAsc(_)
SortAsc(list) ==
    IF list = <<>> THEN <<>>
    ELSE InsertAsc(SortAsc(SubSeq(list, 1, Len(list) - 1)), list[Len(list)])

\* list.sort(key=..., reverse=True): descending, equal keys keep their order
RECURSIVE InsertDesc(_, _)
InsertDesc(sorted, x) ==
    IF sorted = <<>> THEN <<x>>
    ELSE IF SortKeyLt(Head(sorted), x) THEN <<x>> \o sorted
    ELSE <<Head(sorted)>> \o InsertDesc(Tail(sorted), x)

RECURSIVE SortDescRec(_)
SortDescRec(list) ==
    IF list = <<>> THEN <<>>
    ELSE InsertDesc(SortDescRec(SubSeq(list, 1, Len(list) - 1)), list[Len(list)])

SortDesc(list) == SortDescRec(list)

DuplicateLog(edinet_code, fiscal_year, chosen, m) ==
    [edinet_code |-> edinet_code,
     fiscal_year |-> fiscal_year,
     chosen_tsv |-> PathName(chosen.tsv_path),
     chosen_submit_datetime |-> chosen.submit_datetime,
     skipped_tsv |-> PathName(m.tsv_path),
     skipped_reason |-> "duplicate_skipped: newer submit_datetime or filename chosen"]

\* no filing chosen (Python None)
NoMeta == [tsv_path |-> Path(<<>>, <<>>)]

\* every sorted filing logged as skipped, the chosen one included
SelectFrom_logs_all(sorted, edinet_code, fiscal_year) ==
    [chosen |-> sorted[1],
     duplicate_logs |->
        [i \in 1..Len(sorted) |->
            DuplicateLog(edinet_code, fiscal_year, sorted[1], sorted[i])]]

SelectFrom(sorted, edinet_code, fiscal_year) ==
    [chosen |-> sorted[1],
     duplicate_logs |->
        [i \in 1..(Len(sorted) - 1) |->
            DuplicateLog(edinet_code, fiscal_year, sorted[1], sorted[i + 1])]]

\* the key of m holds the float nan instead of a string
HasNanKey(m) == ~HAS_POLARS /\ m.submit_datetime = NanCell

\* metas_with_dt.sort raises TypeError: ordering the list takes a comparison of
\* a float key with a str key
SortRaises(year_metas) ==
    /\ Len(year_metas) >= 2
    /\ \E i \in 1..Len(year_metas) : HasNanKey(year_metas[i])
    /\ \E j \in 1..Len(year_metas) : ~HasNanKey(year_metas[j])

\* the value returned, when the sort does not raise
select_best_tsv(year_metas, edinet_code, fiscal_year) ==
    IF year_metas = <<>> THEN [chosen |-> NoMeta, duplicate_logs |-> <<>>]
    ELSE IF Len(year_metas) = 1 THEN [chosen |-> year_metas[1], duplicate_logs |-> <<>>]
    ELSE SelectFrom(SortDesc(year_metas), edinet_code, fiscal_year)

-----------------------------------------------------------------------------
(* The loaded filing table and the fact resolver *)

\* a context id is a sequence of word tokens; str.contains is contiguous matching
Contains(s, pat) ==
    \E i \in 1..(Len(s) - Len(pat) + 1) : SubSeq(s, i, i + Len(pat) - 1) = pat

AllColumns == {"ElementID", "RelativeYear", "PeriodType", "Scope", "ContextID",
               "Value", "Unit"}

Row(eid, rel, ptype, scope, ctx, value, unit) ==
    [ElementID |-> eid, RelativeYear |-> rel, PeriodType |-> ptype, Scope |-> scope,
     ContextID |-> ctx, Value |-> value, Unit |-> unit]

\* the Member-exclusion predicate on one row; on a null context id polars'
\* predicate is null, which filter() drops, and pandas' na=False keeps the row
KeepRow(r) ==
    IF r.ContextID = NULL THEN ~HAS_POLARS
    ELSE ~(/\ Contains(r.ContextID, <<"Member">>)
           /\ ~Contains(r.ContextID, <<"Non", "Consolidated", "Member">>)
           /\ ~Contains(r.ContextID, <<"Consolidated", "Member">>))

\* the rows of one candidate left by the two filters
FilteredRows(df, full_elem_id, relative_year, period_type, consolidated) ==
    LET matched == SelectSeq(df.rows, LAMBDA r :
                        /\ r.ElementID = full_elem_id
                        /\ r.RelativeYear = relative_year
                        /\ r.PeriodType = period_type
                        /\ r.Scope = consolidated)
    IN  IF "ContextID" \in df.columns THEN SelectSeq(matched, KeepRow) ELSE matched

\* row.get("Value", "") and row.get("Unit", "yen"), normalized
RowValue(df, r) ==
    normalize_value(IF "Value" \in df.columns THEN r.Value ELSE <<>>,
                    IF "Unit" \in df.columns THEN r.Unit ELSE "yen")

\* the values list: the normalized values that are not None, in row order
UsableValues(df, rows) ==
    LET vals == [i \in 1..Len(rows) |-> RowValue(df, rows[i])]
    IN  SelectSeq(vals, LAMBDA v : v # None)

\* max(values): the first value, replaced by each later one that compares greater
RECURSIVE PyMax(_)
PyMax(values) ==
    IF Len(values) = 1 THEN values[1]
    ELSE LET m == PyMax(SubSeq(values, 1, Len(values) - 1))
             x == values[Len(values)]
         IN  IF FGt(x, m) THEN x ELSE m

\* "if len(filtered) == 0: continue", "if values: return max(values)"
MaxOfValues(filtered, values) ==
    IF Len(filtered) = 0 \/ values = <<>> THEN [hit |-> FALSE, val |-> None]
    ELSE [hit |-> TRUE, val |-> PyMax(values)]

MaxOfUsable(df, filtered) == MaxOfValues(filtered, UsableValues(df, filtered))

\* a candidate with rows but no usable value ends the search
TryCandidate_no_fallthrough(df, full_elem_id, relative_year, period_type, consolidated) ==
    LET filtered == FilteredRows(df, full_elem_id, relative_year, period_type,
                                 consolidated)
        values == UsableValues(df, filtered)
    IN  IF Len(filtered) = 0 THEN [hit |-> FALSE, val |-> None]
        ELSE IF values = <<>> THEN [hit |-> TRUE, val |-> None]
        ELSE [hit |-> TRUE, val |-> PyMax(values)]

\* the loop body without its try/except: the exception of the filter leaves
\* the resolver
TryCandidate_uncaught(df, full_elem_id, relative_year, period_type, consolidated) ==
    IF ~({"ElementID", "RelativeYear", "PeriodType", "Scope"} \subseteq df.columns)
    THEN [hit |-> TRUE, val |-> Raised]
    ELSE MaxOfUsable(df, FilteredRows(df, full_elem_id, relative_year, period_type,
                                      consolidated))

\* one pass of the loop body: [hit |-> FALSE] is continue (no row, no usable
\* value, or an exception such as a column the table lacks)
TryCandidate(df, full_elem_id, relative_year, period_type, consolidated) ==
    IF ~({"ElementID", "RelativeYear", "PeriodType", "Scope"} \subseteq df.columns)
    THEN [hit |-> FALSE, val |-> None]
    ELSE MaxOfUsable(df, FilteredRows(df, full_elem_id, relative_year, period_type,
                                      consolidated))

\* f"{prefix}{elem_id}": an element id is the sequence of its namespace prefix
\* and its local name
FullElemId(prefix, elem_id) == <<prefix, elem_id>>

\* the matched element name when nothing matched (Python None)
NoEid == "None"

\* return on the first candidate that gave a value, else go on to the next
ReturnOrContinue(t, elem_id, next_candidates) ==
    IF t.hit THEN [val |-> t.val, eid |-> elem_id] ELSE next_candidates

RECURSIVE ExtractFrom(_, _, _, _, _, _, _)
ExtractFrom(i, df, element_ids, relative_year, period_type, consolidated, prefix) ==
    IF i > Len(element_ids) THEN [val |-> None, eid |-> NoEid]
    ELSE ReturnOrContinue(
            TryCandidate(df, FullElemId(prefix, element_ids[i]), relative_year,
                         period_type, consolidated),
            element_ids[i],
            ExtractFrom(i + 1, df, element_ids, relative_year, period_type,
                        consolidated, prefix))

\* _extract_value_polars_with_eid / _extract_value_pandas_with_eid
extract_value_with_fallback_and_eid(df, element_ids, relative_year, period_type, consolidated) ==
    ExtractFrom(1, df, element_ids, relative_year, period_type, consolidated,
                "jppfs_cor:")

\* _extract_value_polars / _extract_value_pandas
extract_value_with_fallback(df, element_ids, relative_year, period_type, consolidated) ==
    ExtractFrom(1, df, element_ids, relative_year, period_type, consolidated,
                "jppfs_cor:").val

-----------------------------------------------------------------------------
(* Candidate element lists *)

ELEMENT_NET_SALES == <<"NetSales", "NetSalesOfCompletedConstructionContracts">>

ELEMENT_PROFIT_LOSS == <<"ProfitLoss", "ProfitLossAttributableToOwnersOfParent">>

ELEMENT_OPERATING_CF == <<"NetCashProvidedByUsedInOperatingActivities">>

ELEMENT_ASSETS == <<"Assets">>

ELEMENT_REC_BASE ==
    <<"NotesAndAccountsReceivableTrade",
      "NotesAndAccountsReceivableTradeAndContractAssets",
      "ReceivablesTradeAndContractAssets",
      "AccountsReceivableTrade",
      "TradeAndOtherReceivables",
      "NotesReceivableTrade",
      "AccountsReceivableOther",
      "AccountsReceivableFromCompletedConstructionContracts",
      "NotesReceivableAccountsReceivableFromCompletedConstructionContractsAndOtherCNS">>

ELEMENT_ECLAIMS ==
    <<"ElectronicallyRecordedMonetaryClaimsOperatingCA",
      "ElectronicallyRecordedMonetaryClaimsOperating">>

ELEMENT_PPE == <<"PropertyPlantAndEquipment", "PropertyPlantAndEquipmentNet">>

-----------------------------------------------------------------------------
(* check_has_consolidated_data *)

\* no filing taken as consolidated
check_has_consolidated_data_never(df, element_ids) == FALSE

check_has_consolidated_data(df, element_ids) ==
    IF ~({"Scope", "ElementID", "RelativeYear"} \subseteq df.columns) THEN FALSE
    ELSE LET consolidated_rows == SelectSeq(df.rows, LAMBDA r : r.Scope = "Consolidated")
         IN  \E i \in 1..Len(element_ids) : \E k \in 1..Len(consolidated_rows) :
                /\ consolidated_rows[k].ElementID = FullElemId("jppfs_cor:", element_ids[i])
                /\ consolidated_rows[k].RelativeYear = "Current"

-----------------------------------------------------------------------------
(* extract_mj_data_from_tsv *)

\* a TSV file on disk: its stem, whether reading it succeeds ("ok"), fails at
\* every read ("unreadable") or fails at the full load only ("load_error"),
\* and the table it holds
File(stem, io, df) == [stem |-> stem, io |-> io, df |-> df]

\* no record, no debug entry (Python None)
NoMJ == [edinet_code |-> <<>>]

NoRecDebug == [edinet_code |-> <<>>]

\* rec_base_eid or ""
EidOrEmpty(eid) == IF eid = NoEid THEN "" ELSE eid

\* the electronic claims taking the place of a base that did not resolve
add_eclaims_claims_alone(base, eclaims) ==
    IF base = None THEN eclaims
    ELSE FAdd(base, IF eclaims = None \/ eclaims = Float(0) THEN Float(0) ELSE eclaims)

add_eclaims(base, eclaims) ==
    IF base = None THEN None
    ELSE FAdd(base, IF eclaims = None \/ eclaims = Float(0) THEN Float(0) ELSE eclaims)

\* a derived metric computed when either operand is there
Derived_either(a, b) ==
    IF a # None \/ b # None
    THEN FSub(IF a = None THEN Float(0) ELSE a, IF b = None THEN Float(0) ELSE b)
    ELSE None

\* "if a is not None and b is not None: x = a - b", x being None before
Derived(a, b) == IF a # None /\ b # None THEN FSub(a, b) ELSE None

\* only the three derived metrics tested
ReasonsOf_derived_only(checks) ==
    LET missing == SelectSeq(SubSeq(checks, Len(checks) - 2, Len(checks)),
                             LAMBDA c : c[1] = None)
    IN  [i \in 1..Len(missing) |-> missing[i][2]]

\* the tests stop at the first field found missing
ReasonsOf_first_only(checks) ==
    LET missing == SelectSeq(checks, LAMBDA c : c[1] = None)
    IN  IF missing = <<>> THEN <<>> ELSE <<missing[1][2]>>

\* the reasons appended, in order: each pair is <<value, reason>>
ReasonsOf(checks) ==
    LET missing == SelectSeq(checks, LAMBDA c : c[1] = None)
    IN  [i \in 1..Len(missing) |-> missing[i][2]]

\* the record, the reasons and the debug entry built from the values found;
\* found holds what the resolver returned for each concept
BuildResult(meta, company_info, has_consolidated, ct, found) ==
    LET rev_t == found.rev_t
        rev_t1 == found.rev_t1
        ni_t == found.ni_t
        cfo_t == found.cfo_t
        assets_prev_end == found.assets_prev_end
        rec_base_t == found.rec_base_t
        rec_eclaims_t == found.rec_eclaims_t
        rec_base_t1 == found.rec_base_t1
        rec_eclaims_t1 == found.rec_eclaims_t1
        ppe_end_t == found.ppe_end_t
        ar_end_t == add_eclaims(rec_base_t.val, rec_eclaims_t.val)
        ar_end_t1 == add_eclaims(rec_base_t1.val, rec_eclaims_t1.val)
        rec_rule == IF rec_base_t.val # None THEN "PLUS_E" ELSE "NO_BASE"
        ta_t == Derived(ni_t, cfo_t)
        d_rev == Derived(rev_t, rev_t1)
        d_ar == Derived(ar_end_t, ar_end_t1)
    IN  [mj |->
            [edinet_code |-> meta.edinet_code,
             sec_code |-> company_info.sec_code,
             fiscal_year |-> meta.fiscal_year,
             period_end |-> meta.fiscal_year_end,
             submit_datetime |-> meta.submit_datetime,
             doc_id |-> meta.doc_id,
             tsv_path |-> PathStr(meta.tsv_path),
             is_consolidated |-> has_consolidated,
             assets_prev_end |-> assets_prev_end,
             rev_t |-> rev_t,
             rev_t1 |-> rev_t1,
             ar_end_t |-> ar_end_t,
             ar_end_t1 |-> ar_end_t1,
             ar_end_t_no_e |-> rec_base_t.val,
             ar_end_t1_no_e |-> rec_base_t1.val,
             eclaims_end_t |-> rec_eclaims_t.val,
             eclaims_end_t1 |-> rec_eclaims_t1.val,
             rec_rule |-> rec_rule,
             rec_used_base_eid |-> EidOrEmpty(rec_base_t.eid),
             rec_used_eclaims_eid |-> EidOrEmpty(rec_eclaims_t.eid),
             ppe_end_t |-> ppe_end_t,
             ni_t |-> ni_t,
             cfo_t |-> cfo_t,
             ta_t |-> ta_t,
             d_rev |-> d_rev,
             d_ar |-> d_ar],
         missing_reasons |->
            ReasonsOf(<<
                <<rev_t, "rev_t (NetSales Current " \o ct \o ")">>,
                <<rev_t1, "rev_t1 (NetSales Prior " \o ct \o ")">>,
                <<ni_t, "ni_t (ProfitLoss Current " \o ct \o ")">>,
                <<cfo_t, "cfo_t (OperatingCF Current " \o ct \o ")">>,
                <<assets_prev_end, "assets_prev_end (Assets PriorEnd " \o ct \o ")">>,
                <<ar_end_t, "ar_end_t (REC base CurrentEnd " \o ct \o ")">>,
                <<ar_end_t1, "ar_end_t1 (REC base PriorEnd " \o ct \o ")">>,
                <<ppe_end_t, "ppe_end_t (PPE CurrentEnd " \o ct \o ")">>,
                <<ta_t, "ta_t (ni_t - cfo_t)">>,
                <<d_rev, "d_rev (rev_t - rev_t1)">>,
                <<d_ar, "d_ar (ar_end_t - ar_end_t1)">> >>),
         rec_debug |->
            [edinet_code |-> meta.edinet_code,
             fiscal_year |-> meta.fiscal_year,
             tsv_path |-> PathStr(meta.tsv_path),
             is_consolidated |-> has_consolidated,
             rec_rule |-> rec_rule,
             rec_base_end_t |-> rec_base_t.val,
             rec_base_end_t1 |-> rec_base_t1.val,
             rec_eclaims_end_t |-> rec_eclaims_t.val,
             rec_eclaims_end_t1 |-> rec_eclaims_t1.val,
             rec_plus_e_end_t |-> ar_end_t,
             rec_plus_e_end_t1 |-> ar_end_t1,
             rec_used_base_eid_end_t |-> EidOrEmpty(rec_base_t.eid),
             rec_used_base_eid_end_t1 |-> EidOrEmpty(rec_base_t1.eid),
             rec_used_eclaims_eid_end_t |-> EidOrEmpty(rec_eclaims_t.eid),
             rec_used_eclaims_eid_end_t1 |-> EidOrEmpty(rec_eclaims_t1.eid)]]

\* the resolver called for each concept in the scope ct
ExtractScoped(df, meta, company_info, has_consolidated, ct) ==
    BuildResult(meta, company_info, has_consolidated, ct,
        [rev_t |-> extract_value_with_fallback(df, ELEMENT_NET_SALES, "Current", "Duration", ct),
         rev_t1 |-> extract_value_with_fallback(df, ELEMENT_NET_SALES, "Prior", "Duration", ct),
         ni_t |-> extract_value_with_fallback(df, ELEMENT_PROFIT_LOSS, "Current", "Duration", ct),
         cfo_t |-> extract_value_with_fallback(df, ELEMENT_OPERATING_CF, "Current", "Duration", ct),
         assets_prev_end |->
            extract_value_with_fallback(df, ELEMENT_ASSETS, "PriorEnd", "Instant", ct),
         rec_base_t |->
            extract_value_with_fallback_and_eid(df, ELEMENT_REC_BASE, "CurrentEnd", "Instant", ct),
         rec_eclaims_t |->
            extract_value_with_fallback_and_eid(df, ELEMENT_ECLAIMS, "CurrentEnd", "Instant", ct),
         rec_base_t1 |->
            extract_value_with_fallback_and_eid(df, ELEMENT_REC_BASE, "PriorEnd", "Instant", ct),
         rec_eclaims_t1 |->
            extract_value_with_fallback_and_eid(df, ELEMENT_ECLAIMS, "PriorEnd", "Instant", ct),
         ppe_end_t |->
            extract_value_with_fallback(df, ELEMENT_PPE, "CurrentEnd", "Instant", ct)])

\* the flag set from the net-sales rows, the values looked up in individual scope
ExtractLoaded_flag_only(df, meta, company_info, has_consolidated) ==
    ExtractScoped(df, meta, company_info, has_consolidated, "NonConsolidated")

\* the scope decided from the consolidated net-sales rows
ExtractLoaded(df, meta, company_info, has_consolidated) ==
    ExtractScoped(df, meta, company_info, has_consolidated,
                  IF has_consolidated THEN "Consolidated" ELSE "NonConsolidated")

extract_mj_data_from_tsv(file, meta, company_info) ==
    IF file.io # "ok"
    THEN [mj |-> NoMJ, missing_reasons |-> <<"TSV read error">>, rec_debug |-> NoRecDebug]
    ELSE ExtractLoaded(file.df, meta, company_info,
                       check_has_consolidated_data(file.df, ELEMENT_NET_SALES))

-----------------------------------------------------------------------------
(* read_tsv_dei_only *)

FISCAL_YEAR_MIN == 2015

FISCAL_YEAR_MAX == 2024

DEI_ACCOUNTING_STANDARDS == <<"jpdei_cor:", "AccountingStandardsDEI">>

DEI_FISCAL_YEAR_START == <<"jpdei_cor:", "CurrentFiscalYearStartDateDEI">>

DEI_FISCAL_YEAR_END == <<"jpdei_cor:", "CurrentFiscalYearEndDateDEI">>

DEI_SUBMIT_DATETIME_CANDIDATES ==
    <<<<"jpdei_cor:", "FilingDateDEI">>,
      <<"jpdei_cor:", "SubmissionDateTimeDEI">>,
      <<"jpcrp_cor:", "FilingDateCoverPage">>>>

\* no fiscal year (Python None)
NoYear == 0

\* re.match(r"(\d{4})[-/](\d{2})[-/](\d{2})", date_str), then int(group(1))
extract_fiscal_year(date_str) ==
    IF date_str = NULL \/ date_str = <<>> THEN NoYear
    ELSE IF /\ Len(date_str) >= 10
            /\ \A i \in {1, 2, 3, 4, 6, 7, 9, 10} : date_str[i] \in Digits
            /\ \A i \in {5, 8} : date_str[i] \in {"-", "/"}
         THEN DigitsToNat(SubSeq(date_str, 1, 4))
         ELSE NoYear

\* a value cell as the build reads it: polars gives None for an empty cell,
\* pandas the float nan
CellOf(v) == IF v = NULL /\ ~HAS_POLARS THEN NanCell ELSE v

\* dei_dict.get(key): the value of the last row of that element id, NULL when
\* there is none
DeiGet(dei_rows, key) ==
    LET hits == SelectSeq(dei_rows, LAMBDA r : r.ElementID = key)
    IN  IF hits = <<>> THEN NULL ELSE CellOf(hits[Len(hits)].Value)

\* the first candidate key present in dei_dict with a non-empty value
RECURSIVE SubmitDatetimeFrom(_, _)
SubmitDatetimeFrom(i, dei_rows) ==
    IF i > Len(DEI_SUBMIT_DATETIME_CANDIDATES) THEN NULL
    ELSE LET v == DeiGet(dei_rows, DEI_SUBMIT_DATETIME_CANDIDATES[i])
         IN  IF v # NULL /\ v # <<>> THEN v ELSE SubmitDatetimeFrom(i + 1, dei_rows)

\* the read error is not noticed: the metadata are built from what the file
\* would hold
read_tsv_dei_only_unguarded(parent, file) ==
    LET rows == file.df.rows
        dei_rows == SelectSeq(rows, LAMBDA r :
                        /\ r.ElementID # NULL
                        /\ \/ Contains(r.ElementID, <<"jpdei_cor:">>)
                           \/ Contains(r.ElementID, <<"jpcrp_cor:">>))
        fiscal_year_start == DeiGet(dei_rows, DEI_FISCAL_YEAR_START)
    IN  TSVMetadata(Path(parent, file.stem),
                    DeiGet(dei_rows, DEI_ACCOUNTING_STANDARDS),
                    extract_fiscal_year(fiscal_year_start),
                    fiscal_year_start,
                    DeiGet(dei_rows, DEI_FISCAL_YEAR_END),
                    SubmitDatetimeFrom(1, dei_rows),
                    FALSE)

\* None stands for the exception caught (the file cannot be read, or lacks one
\* of the two columns asked for); the namespace prefixes of the tables are
\* lower-case, as str.lower() leaves them
read_tsv_dei_only(parent, file) ==
    IF file.io = "unreadable" \/ ~({"ElementID", "Value"} \subseteq file.df.columns)
    THEN NoMeta
    ELSE
    LET rows == file.df.rows
        has_ifrs == \E k \in 1..Len(rows) :
                        /\ rows[k].ElementID # NULL
                        /\ \/ Contains(rows[k].ElementID, <<"ifrs-full:">>)
                           \/ Contains(rows[k].ElementID, <<"us-gaap:">>)
        dei_rows == SelectSeq(rows, LAMBDA r :
                        /\ r.ElementID # NULL
                        /\ \/ Contains(r.ElementID, <<"jpdei_cor:">>)
                           \/ Contains(r.ElementID, <<"jpcrp_cor:">>))
        fiscal_year_start == DeiGet(dei_rows, DEI_FISCAL_YEAR_START)
    IN  TSVMetadata(Path(parent, file.stem),
                    DeiGet(dei_rows, DEI_ACCOUNTING_STANDARDS),
                    extract_fiscal_year(fiscal_year_start),
                    fiscal_year_start,
                    DeiGet(dei_rows, DEI_FISCAL_YEAR_END),
                    SubmitDatetimeFrom(1, dei_rows),
                    has_ifrs)

-----------------------------------------------------------------------------
(* scan_tsvs_for_company *)

\* str(acc_std): the text of a cell, its tokens put together
RECURSIVE TokStr(_)
TokStr(text) == IF text = <<>> THEN "" ELSE Head(text) \o TokStr(Tail(text))

\* dict assignment d[k] = v
DictPut(d, k, v) == [x \in (DOMAIN d) \cup {k} |-> IF x = k THEN v ELSE d[x]]

\* one pass of the loop over company_dir.glob("*.tsv")
ScanOne(acc, meta) ==
    IF meta = NoMeta THEN acc
    ELSE IF meta.fiscal_year = NoYear THEN acc
    ELSE IF ~(FISCAL_YEAR_MIN <= meta.fiscal_year /\ meta.fiscal_year <= FISCAL_YEAR_MAX)
    THEN acc
    ELSE
    LET acc_std == meta.accounting_standard
        truthy == acc_std # NULL /\ acc_std # <<>>
        is_japan_gaap == acc_std = NULL \/ Contains(acc_std, <<"Japan GAAP">>)
    IN  IF meta.has_ifrs_us_gaap
        THEN [acc EXCEPT !.non_japan_gaap_by_year =
                 DictPut(@, meta.fiscal_year,
                         IF truthy THEN TokStr(acc_std) ELSE "IFRS/US-GAAP")]
        ELSE IF ~is_japan_gaap
        THEN [acc EXCEPT !.non_japan_gaap_by_year =
                 DictPut(@, meta.fiscal_year,
                         IF truthy THEN TokStr(acc_std) ELSE "Unknown")]
        ELSE [acc EXCEPT !.metas = Append(@, meta)]

RECURSIVE ScanFrom(_, _, _)
ScanFrom(i, dir, parent) ==
    IF i = 0 THEN [metas |-> <<>>, non_japan_gaap_by_year |-> <<>>]
    ELSE ScanOne(ScanFrom(i - 1, dir, parent), read_tsv_dei_only(parent, dir[i]))

scan_tsvs_for_company(dir, edinet_code) == ScanFrom(Len(dir), dir, edinet_code)

-----------------------------------------------------------------------------
(* process_company *)

\* "; ".join(missing_reasons)
RECURSIVE Join(_)
Join(reasons) ==
    IF reasons = <<>> THEN ""
    ELSE IF Len(reasons) = 1 THEN reasons[1]
    ELSE reasons[1] \o "; " \o Join(Tail(reasons))

MissingLog(edinet_code, fiscal_year, tsv_path, missing_reason) ==
    [edinet_code |-> edinet_code, fiscal_year |-> fiscal_year, tsv_path |-> tsv_path,
     missing_reason |-> missing_reason]

\* by_year.get(fy, [])
YearMetasOf(all_metas, year) == SelectSeq(all_metas, LAMBDA m : m.fiscal_year = year)

\* the file a path of the company directory names
FileAt(dir, tsv_path) == CHOOSE f \in {dir[i] : i \in 1..Len(dir)} : f.stem = tsv_path.stem

\* the record goes to the complete-case list whenever there is one
IsComplete_any_record(mj, missing_reasons) == mj # NoMJ

\* the branch that appends the record: "if missing_reasons: ... else: mj_inputs.append(mj)"
IsComplete(mj, missing_reasons) == mj # NoMJ /\ missing_reasons = <<>>

-----------------------------------------------------------------------------
(* Call of normalize_value on every short cell text and unit label *)

Glyphs == {"1", "2", ",", "(", ")", "TRI_W", "TRI_B", "-", "FW_HYPHEN", "HBAR",
           "CHOON", "MINUS", " ", "x", "nan", "None"}

RECURSIVE SeqsUpTo(_, _)
SeqsUpTo(S, n) ==
    IF n = 0 THEN {<<>>}
    ELSE LET shorter == SeqsUpTo(S, n - 1)
         IN  shorter \cup {Append(s, c) : s \in {t \in shorter : Len(t) = n - 1}, c \in S}

\* longer cell texts: amounts with a thousands separator, nested and
\* unbalanced parentheses
LongTexts ==
    {<<"1", ",", "2", "3", "4">>,
     <<"(", "1", ",", "2", "3", "4", ")">>,
     <<"TRI_W", "1", ",", "2", "3", "4">>,
     <<"TRI_B", "1", ",", "2", "3", "4">>,
     <<"5">>, <<"(", "5", ")">>,
     <<"(", "(", "1", ")", ")">>,
     <<"(", "1", "2", ",">>,
     <<"1", "2", ")", ")">>}

Texts == SeqsUpTo(Glyphs, MaxLen) \cup {NULL} \cup LongTexts

\* the five units of UNIT_MAP and one label outside it
Units == {"yen", "sen_yen", "hyakuman_yen", "oku_yen", "JPY", "USD"}

NotReturned == [tag |-> "pending", m |-> 0, e |-> 0]

NoCall == [fn |-> "none"]

\* main is not running
IdleMain ==
    /\ companies = <<>>
    /\ num_workers = 0
    /\ runs = <<>>
    /\ tasks = <<>>
    /\ consumed = {}
    /\ all_mj_inputs = <<>>
    /\ all_missing_logs = <<>>
    /\ all_duplicate_logs = <<>>
    /\ all_rec_debug_logs = <<>>
    /\ warned = <<>>
    /\ main_pc = "idle"

IdleProc ==
    /\ IdleMain
    /\ company_dir = <<>>
    /\ metas = <<>>
    /\ non_japan_gaap_by_year = <<>>
    /\ fy = 0
    /\ mj_inputs = <<>>
    /\ missing_logs = <<>>
    /\ duplicate_logs = <<>>
    /\ rec_debug_logs = <<>>

InitNormalize ==
    /\ HAS_POLARS \in BOOLEAN
    /\ pc = "call"
    /\ call \in [fn : {"normalize_value"}, value_str : Texts, unit : Units]
    /\ ret = NotReturned
    /\ IdleProc

NormalizeValue ==
    /\ pc = "call"
    /\ call.fn = "normalize_value"
    /\ ret' = normalize_value(call.value_str, call.unit)
    /\ pc' = "returned"
    /\ UNCHANGED <<mainVars, HAS_POLARS, call, procVars>>

NextNormalize == NormalizeValue

SpecNormalize == InitNormalize /\ [][NextNormalize]_vars

-----------------------------------------------------------------------------
(* C10: normalize_value returns None for every recognized dash or          *)
(* placeholder cell text (the empty text and the ASCII, full-width and     *)
(* EDINET dash glyphs), whatever the unit label and whatever whitespace    *)
(* surrounds the text.                                                     *)

DashGlyphs == {"-", "FW_HYPHEN", "HBAR", "CHOON", "MINUS"}

\* the text is whitespace around nothing or around one dash glyph
IsDashCell(s) ==
    /\ s # NULL
    /\ \/ \A i \in 1..Len(s) : s[i] = " "
       \/ \E i \in 1..Len(s) :
            /\ s[i] \in DashGlyphs
            /\ \A j \in 1..Len(s) : j # i => s[j] = " "

C10_DashIsAbsent ==
    (pc = "returned" /\ call.fn = "normalize_value" /\ IsDashCell(call.value_str))
        => ret = None

C10_Witness ==
    /\ pc = "returned"
    /\ call.fn = "normalize_value"
    /\ call.value_str = <<" ", "FW_HYPHEN", " ">>
    /\ call.unit = "oku_yen"
    /\ ret = None

\* the text is digits and thousands separators, with at least one digit
IsIntegerBody(s) ==
    /\ s # NULL
    /\ \A i \in 1..Len(s) : s[i] \in Digits \cup {","}
    /\ \E i \in 1..Len(s) : s[i] \in Digits

\* n of an integer body
BodyValue(s) == DigitsToNat(SelectSeq(s, LAMBDA c : c \in Digits))

\* factor(unit) as its exponent of ten
FactorExp(unit) ==
    CASE unit = "sen_yen" -> 3
      [] unit = "hyakuman_yen" -> 6
      [] unit = "oku_yen" -> 8
      [] OTHER -> 0

NormalizeReturned == pc = "returned" /\ call.fn = "normalize_value"

\* C11: an integer body n gives n * factor(unit); the same body wrapped in
\* ASCII parentheses or prefixed by a white or black triangle gives
\* -(n * factor(unit)); factor is 1, 10^3, 10^6, 10^8 for the four yen units
\* and 1 for JPY and for any label outside the map.
C11_SignAndUnit ==
    NormalizeReturned =>
        LET s == call.value_str
            inner == SubSeq(s, 2, Len(s) - 1)
            rest == SubSeq(s, 2, Len(s))
        IN  /\ IsIntegerBody(s) => ret = Canon(BodyValue(s), FactorExp(call.unit))
            /\ (/\ s # NULL /\ Len(s) >= 3 /\ s[1] = "(" /\ s[Len(s)] = ")"
                /\ IsIntegerBody(inner)) =>
                  ret = Canon(0 - BodyValue(inner), FactorExp(call.unit))
            /\ (s # NULL /\ Len(s) >= 2 /\ s[1] \in {"TRI_W", "TRI_B"} /\ IsIntegerBody(rest)) =>
                  ret = Canon(0 - BodyValue(rest), FactorExp(call.unit))

\* "(1,234)" in thousands of yen is -1234000
C11_Witness ==
    /\ NormalizeReturned
    /\ call.value_str = <<"(", "1", ",", "2", "3", "4", ")">>
    /\ call.unit = "sen_yen"
    /\ ret = [tag |-> "float", m |-> 0 - 1234, e |-> 3]

\* C12: whatever the cell text and the unit label, normalize_value returns a
\* float or None; no exception leaves it.
C12_Total ==
    NormalizeReturned => ret.tag \in {"float", "nan", "None"}

\* nested parentheses: the inner text is no number and the result is None
C12_Witness ==
    /\ NormalizeReturned
    /\ call.value_str = <<"(", "(", "1", ")", ")">>
    /\ call.unit = "USD"
    /\ ret = None

-----------------------------------------------------------------------------
(* Call of select_best_tsv on the filings of one company-year *)

DigitGlyph == <<"1", "2", "3", "4", "5", "6", "7", "8", "9">>

\* document ids (file stems), all of one length as EDINET's S100XXXX are
DocIds == {<<"S", DigitGlyph[i]>> : i \in 1..MaxFiles}

EdinetCode == <<"E", "1">>

TS1 == <<"2", "0", "2", "1", "-", "0", "6">>

TS2 == <<"2", "0", "2", "2", "-", "0", "6">>

\* no timestamp, two dates, and a text that is no date
Timestamps == {NULL, TS1, TS2, <<"x">>}

YearMetas ==
    {TSVMetadata(Path(EdinetCode, d), NULL, 2015, <<"2015", "-", "04", "-", "01">>,
                 NULL, t, FALSE) : d \in DocIds, t \in Timestamps}

DistinctPaths(list) ==
    \A i, j \in 1..Len(list) : i # j => list[i].tsv_path # list[j].tsv_path

MetaLists == {l \in SeqsUpTo(YearMetas, MaxFiles) : DistinctPaths(l)}

InitSelect ==
    /\ HAS_POLARS \in BOOLEAN
    /\ pc = "call"
    /\ call \in [fn : {"select_best_tsv"}, metas : MetaLists,
                 edinet_code : {EdinetCode}, fiscal_year : {2015}]
    /\ ret = NotReturned
    /\ IdleProc

SelectBestTsv ==
    /\ pc = "call"
    /\ call.fn = "select_best_tsv"
    /\ ret' = select_best_tsv(call.metas, call.edinet_code, call.fiscal_year)
    /\ pc' = "returned"
    /\ UNCHANGED <<mainVars, HAS_POLARS, call, procVars>>

NextSelect == SelectBestTsv

SpecSelect == InitSelect /\ [][NextSelect]_vars

SelectReturned == pc = "returned" /\ call.fn = "select_best_tsv"

ToSet(list) == {list[i] : i \in 1..Len(list)}

\* ascending order on (submission timestamp, filing identifier)
FilingBefore(a, b) ==
    \/ StrLt(DtOrEmpty(a), DtOrEmpty(b))
    \/ DtOrEmpty(a) = DtOrEmpty(b) /\ StrLt(a.doc_id, b.doc_id)

(* C1: given two or more filings of one company-year, select_best_tsv      *)
(* selects the filing that is last in ascending (submission timestamp,     *)
(* filing identifier) order; with two filings stamped T1 < T2 the T2       *)
(* filing is selected and the duplicate log holds exactly one entry,       *)
(* naming the T1 filing as skipped and the T2 filing as chosen.            *)
C1_SelectsLast ==
    (SelectReturned /\ Len(call.metas) >= 2) =>
        /\ ret.chosen \in ToSet(call.metas)
        /\ \A m \in ToSet(call.metas) : m = ret.chosen \/ FilingBefore(m, ret.chosen)
        /\ \A i, j \in 1..Len(call.metas) :
              (/\ Len(call.metas) = 2
               /\ call.metas[i].submit_datetime = TS1
               /\ call.metas[j].submit_datetime = TS2) =>
                  /\ ret.chosen = call.metas[j]
                  /\ Len(ret.duplicate_logs) = 1
                  /\ ret.duplicate_logs[1].skipped_tsv = PathName(call.metas[i].tsv_path)
                  /\ ret.duplicate_logs[1].chosen_tsv = PathName(call.metas[j].tsv_path)
                  /\ ret.duplicate_logs[1].chosen_submit_datetime = TS2

\* the T2 filing comes first in the input and has the smaller identifier
C1_Witness ==
    /\ SelectReturned
    /\ Len(call.metas) = 2
    /\ call.metas[1].submit_datetime = TS2
    /\ call.metas[2].submit_datetime = TS1
    /\ StrLt(call.metas[1].doc_id, call.metas[2].doc_id)
    /\ ret.chosen = call.metas[1]
    /\ Len(ret.duplicate_logs) = 1

Permuted(list, f) == [i \in 1..Len(list) |-> list[f[i]]]

SkippedSet(r) == {r.duplicate_logs[i].skipped_tsv : i \in 1..Len(r.duplicate_logs)}

(* C2: select_best_tsv is order-independent: on every permutation of a     *)
(* list of filings with distinct paths it selects the same filing and      *)
(* logs the same set of filings as skipped.                                *)
C2_OrderIndependent ==
    SelectReturned =>
        \A f \in Permutations(1..Len(call.metas)) :
            LET other == select_best_tsv(Permuted(call.metas, f),
                                         call.edinet_code, call.fiscal_year)
            IN  /\ other.chosen = ret.chosen
                /\ SkippedSet(other) = SkippedSet(ret)

\* three filings, two of them with the same timestamp, the chosen one in the middle
C2_Witness ==
    /\ SelectReturned
    /\ Len(call.metas) = 3
    /\ call.metas[1].submit_datetime = TS2
    /\ call.metas[2].submit_datetime = TS2
    /\ call.metas[3].submit_datetime = TS1
    /\ StrLt(call.metas[1].doc_id, call.metas[2].doc_id)
    /\ ret.chosen = call.metas[2]
    /\ Cardinality(SkippedSet(ret)) = 2

\* the text is a date: year, month (and whatever follows)
IsTimestamp(text) ==
    /\ text # NULL
    /\ Len(text) >= 7
    /\ \A k \in {1, 2, 3, 4, 6, 7} : text[k] \in Digits
    /\ text[5] \in {"-", "/"}

\* C20: a filing whose submission timestamp is missing or is no timestamp is
\* never selected when a filing of the list has a timestamp; when every
\* filing lacks a timestamp the one of greatest filing identifier is selected.
C20_NoTimestampSortsFirst ==
    (SelectReturned /\ Len(call.metas) >= 2) =>
        /\ (\E m \in ToSet(call.metas) : IsTimestamp(m.submit_datetime))
              => IsTimestamp(ret.chosen.submit_datetime)
        /\ (\A m \in ToSet(call.metas) : m.submit_datetime = NULL)
              => \A m \in ToSet(call.metas) \ {ret.chosen} : StrLt(m.doc_id, ret.chosen.doc_id)

-----------------------------------------------------------------------------
(* Call of the fact resolver on small filing tables *)

CtxPlain == <<"CurrentYearDuration">>

CtxSegment == <<"CurrentYearDuration", "_", "ReportableSegments", "Member">>

CtxNonConsolidated == <<"CurrentYearDuration", "_", "Non", "Consolidated", "Member">>

\* the scope member alone
CtxConsolidated == <<"CurrentYearDuration", "_", "Consolidated", "Member">>

\* the scope member together with a segment member
CtxConsolidatedSegment ==
    <<"CurrentYearDuration", "_", "Consolidated", "Member", "_", "ReportableSegments", "Member">>

ProfitLossTags == {"ProfitLoss", "ProfitLossAttributableToOwnersOfParent"}

\* rows of the two net-income tags in the period asked for (plain context with
\* two amounts and a dash, a segment context, a null context), one row of
\* another period and one of the other scope; rows of the first tag whose
\* context names the scope member, alone and with a segment member, and one
\* whose text float() reads as nan
ResolverRows ==
    {Row(<<"jppfs_cor:", t>>, "Current", "Duration", "Consolidated", CtxPlain, v, "yen") :
        t \in ProfitLossTags, v \in {<<"5">>, <<"7">>, <<"-">>}}
    \cup {Row(<<"jppfs_cor:", t>>, "Current", "Duration", "Consolidated", c, <<"7">>, "yen") :
        t \in ProfitLossTags, c \in {CtxSegment, NULL}}
    \cup {Row(<<"jppfs_cor:", "ProfitLoss">>, "Prior", "Duration", "Consolidated",
              <<"Prior1YearDuration">>, <<"9">>, "yen"),
          Row(<<"jppfs_cor:", "ProfitLoss">>, "Current", "Duration", "NonConsolidated",
              CtxNonConsolidated, <<"9">>, "yen"),
          Row(<<"jppfs_cor:", "ProfitLoss">>, "Current", "Duration", "Consolidated",
              CtxConsolidated, <<"8">>, "yen"),
          Row(<<"jppfs_cor:", "ProfitLoss">>, "Current", "Duration", "Consolidated",
              CtxConsolidatedSegment, <<"9">>, "yen"),
          Row(<<"jppfs_cor:", "ProfitLoss">>, "Current", "Duration", "Consolidated",
              CtxPlain, <<"(", "nan", ")">>, "yen")}

\* the loaded tables, and tables of one row that lack the scope column
ResolverTables ==
    [columns : {AllColumns}, rows : SeqsUpTo(ResolverRows, MaxRows)]
    \cup [columns : {AllColumns \ {"Scope"}}, rows : SeqsUpTo(ResolverRows, 1)]

CandidateLists ==
    {<<"ProfitLoss", "ProfitLossAttributableToOwnersOfParent">>,
     <<"ProfitLossAttributableToOwnersOfParent", "ProfitLoss">>,
     <<"ProfitLossAttributableToOwnersOfParent">>}

InitResolve ==
    /\ HAS_POLARS \in BOOLEAN
    /\ pc = "call"
    /\ call \in [fn : {"extract_value_with_fallback", "extract_value_with_fallback_and_eid"},
                 df : ResolverTables, element_ids : CandidateLists,
                 relative_year : {"Current"}, period_type : {"Duration"},
                 consolidated : {"Consolidated"}]
    /\ ret = NotReturned
    /\ IdleProc

ExtractValueWithFallback ==
    /\ pc = "call"
    /\ call.fn = "extract_value_with_fallback"
    /\ ret' = extract_value_with_fallback(call.df, call.element_ids, call.relative_year,
                                          call.period_type, call.consolidated)
    /\ pc' = "returned"
    /\ UNCHANGED <<mainVars, HAS_POLARS, call, procVars>>

ExtractValueWithFallbackAndEid ==
    /\ pc = "call"
    /\ call.fn = "extract_value_with_fallback_and_eid"
    /\ ret' = extract_value_with_fallback_and_eid(call.df, call.element_ids,
                  call.relative_year, call.period_type, call.consolidated)
    /\ pc' = "returned"
    /\ UNCHANGED <<mainVars, HAS_POLARS, call, procVars>>

NextResolve == ExtractValueWithFallback \/ ExtractValueWithFallbackAndEid

SpecResolve == InitResolve /\ [][NextResolve]_vars

\* the usable values of candidate i of the call: the normalized values, other
\* than None, of the rows of its tag, period, kind and scope that survive the
\* Member exclusion (none when the table lacks a column the filter reads)
UsableOf(i) ==
    {normalize_value(r.Value, r.Unit) :
        r \in {x \in ToSet(call.df.rows) :
                  /\ x.ElementID = <<"jppfs_cor:", call.element_ids[i]>>
                  /\ x.RelativeYear = call.relative_year
                  /\ x.PeriodType = call.period_type
                  /\ x.Scope = call.consolidated
                  /\ {"ElementID", "RelativeYear", "PeriodType", "Scope"}
                         \subseteq call.df.columns
                  /\ KeepRow(x)}} \ {None}

FirstUsable(i) == UsableOf(i) # {} /\ \A j \in 1..(i - 1) : UsableOf(j) = {}

NoneUsable == \A i \in 1..Len(call.element_ids) : UsableOf(i) = {}

(* C4: the candidate fallback is short-circuiting: the matched tag is the  *)
(* first candidate in list order with at least one surviving row of usable *)
(* value, the value returned is one of that candidate's values, and a      *)
(* later candidate decides the result only if every earlier one yields no  *)
(* usable value; with no usable candidate the result is None.              *)
C4_ShortCircuit ==
    /\ (pc = "returned" /\ call.fn = "extract_value_with_fallback_and_eid") =>
          /\ \A i \in 1..Len(call.element_ids) :
                FirstUsable(i) => ret.eid = call.element_ids[i] /\ ret.val \in UsableOf(i)
          /\ NoneUsable => ret.eid = NoEid /\ ret.val = None
    /\ (pc = "returned" /\ call.fn = "extract_value_with_fallback") =>
          /\ \A i \in 1..Len(call.element_ids) : FirstUsable(i) => ret \in UsableOf(i)
          /\ NoneUsable => ret = None

\* the second candidate's row comes first in the table and carries the larger
\* value, the first candidate has a dash row and a usable row: the first wins
C4_Witness ==
    /\ pc = "returned"
    /\ call.fn = "extract_value_with_fallback_and_eid"
    /\ call.element_ids = <<"ProfitLoss", "ProfitLossAttributableToOwnersOfParent">>
    /\ Len(call.df.rows) = 3
    /\ call.df.rows[1].ElementID = <<"jppfs_cor:", "ProfitLossAttributableToOwnersOfParent">>
    /\ call.df.rows[1].Value = <<"7">>
    /\ call.df.rows[1].ContextID = CtxPlain
    /\ call.df.rows[2].ElementID = <<"jppfs_cor:", "ProfitLoss">>
    /\ call.df.rows[2].Value = <<"-">>
    /\ call.df.rows[2].ContextID = CtxPlain
    /\ call.df.rows[3].ElementID = <<"jppfs_cor:", "ProfitLoss">>
    /\ call.df.rows[3].Value = <<"5">>
    /\ call.df.rows[3].ContextID = CtxPlain
    /\ call.df.rows[3].RelativeYear = "Current"
    /\ call.df.rows[3].Scope = "Consolidated"
    /\ ret = [val |-> Float(5), eid |-> "ProfitLoss"]

ResolveReturned == pc = "returned" /\ call.fn = "extract_value_with_fallback"

ResolveWithEidReturned == pc = "returned" /\ call.fn = "extract_value_with_fallback_and_eid"

\* the call's answer for another table
ResolveOn(df) ==
    extract_value_with_fallback(df, call.element_ids, call.relative_year,
                                call.period_type, call.consolidated)

\* the context id names a member other than ConsolidatedMember and
\* NonConsolidatedMember
NamesSegmentMember(ctx) ==
    /\ ctx # NULL
    /\ \E k \in 1..Len(ctx) : ctx[k] = "Member" /\ (k = 1 \/ ctx[k - 1] # "Consolidated")

\* the table without the rows that name a segment member, every other row
\* given the plain context of the period
WithoutSegmentRows(df) ==
    [df EXCEPT !.rows =
        [i \in 1..Len(SelectSeq(df.rows, LAMBDA r : ~NamesSegmentMember(r.ContextID))) |->
            [SelectSeq(df.rows, LAMBDA r : ~NamesSegmentMember(r.ContextID))[i]
                EXCEPT !.ContextID = CtxPlain]]]

\* C17: a row whose context names a segment member never contributes to the
\* resolved value, also when the context names a scope member as well, and
\* every other row is kept: the resolver gives what it gives on the table
\* without the segment rows, every remaining row taken as a plain one.
C17_SegmentExclusion ==
    ResolveReturned => ret = ResolveOn(WithoutSegmentRows(call.df))

\* C18: the value returned for the matched tag is the greatest of the
\* normalized values of its surviving rows, rows of absent value left out and
\* nothing summed, whatever the order of the rows in the table.
C18_MaxAnyOrder ==
    ResolveReturned =>
        /\ \A i \in 1..Len(call.element_ids) :
              FirstUsable(i) => ret \in UsableOf(i) /\ \A v \in UsableOf(i) : ~FGt(v, ret)
        /\ \A f \in Permutations(1..Len(call.df.rows)) :
              ResolveOn([call.df EXCEPT !.rows = Permuted(call.df.rows, f)]) = ret

\* the table lacks a column the filter reads
LacksFilterColumn ==
    ~({"ElementID", "RelativeYear", "PeriodType", "Scope"} \subseteq call.df.columns)

\* C19: the resolver never raises; it returns absent when no candidate has a
\* usable value, which is the case of every candidate whose filter fails on
\* a missing column; the tag-returning variant gives no tag if and only if it
\* gives no value, and a tag it gives is one of the candidates.
C19_AbsentWhenExhausted ==
    /\ ResolveReturned =>
          /\ ret # Raised
          /\ NoneUsable => ret = None
          /\ LacksFilterColumn => ret = None
    /\ ResolveWithEidReturned =>
          /\ ret.val # Raised
          /\ NoneUsable => ret = [val |-> None, eid |-> NoEid]
          /\ LacksFilterColumn => ret = [val |-> None, eid |-> NoEid]
          /\ ret.eid = NoEid <=> ret.val = None
          /\ ret.eid # NoEid => ret.eid \in ToSet(call.element_ids)

\* a row of the first candidate in a table without the scope column: both
\* candidates fail in the filter and the answer is no value, no tag
C19_Witness ==
    /\ ResolveWithEidReturned
    /\ LacksFilterColumn
    /\ Len(call.df.rows) = 1
    /\ call.df.rows[1].ElementID = <<"jppfs_cor:", "ProfitLoss">>
    /\ call.df.rows[1].Value = <<"7">>
    /\ call.df.rows[1].ContextID = CtxPlain
    /\ Len(call.element_ids) = 2
    /\ ret = [val |-> None, eid |-> NoEid]

-----------------------------------------------------------------------------
(* Call of extract_mj_data_from_tsv on generated filing tables *)

\* the context id EDINET gives a fact of a period and scope
ContextOf(rel, scope) ==
    (CASE rel = "Current" -> <<"CurrentYearDuration">>
       [] rel = "Prior" -> <<"Prior1YearDuration">>
       [] rel = "CurrentEnd" -> <<"CurrentYearInstant">>
       [] rel = "PriorEnd" -> <<"Prior1YearInstant">>)
    \o (IF scope = "NonConsolidated" THEN <<"_", "Non", "Consolidated", "Member">>
        ELSE <<>>)

Fact(elem_id, rel, ptype, scope, value) ==
    Row(<<"jppfs_cor:", elem_id>>, rel, ptype, scope, ContextOf(rel, scope), value, "yen")

\* the eight raw concepts other than the electronic claims, with the amounts of
\* the end-to-end scenario
Slots == {"rev_t", "rev_t1", "ni_t", "cfo_t", "assets_prev_end", "rec_t", "rec_t1", "ppe"}

SlotFact(slot, scope) ==
    CASE slot = "rev_t" -> Fact("NetSales", "Current", "Duration", scope, <<"1", "0", "0", "0">>)
      [] slot = "rev_t1" -> Fact("NetSales", "Prior", "Duration", scope, <<"8", "0", "0">>)
      [] slot = "ni_t" -> Fact("ProfitLoss", "Current", "Duration", scope, <<"5", "0">>)
      [] slot = "cfo_t" ->
            Fact("NetCashProvidedByUsedInOperatingActivities", "Current", "Duration", scope,
                 <<"7", "0">>)
      [] slot = "assets_prev_end" -> Fact("Assets", "PriorEnd", "Instant", scope, <<"9", "0", "0">>)
      [] slot = "rec_t" ->
            Fact("NotesAndAccountsReceivableTrade", "CurrentEnd", "Instant", scope,
                 <<"1", "2", "0">>)
      [] slot = "rec_t1" ->
            Fact("NotesAndAccountsReceivableTrade", "PriorEnd", "Instant", scope,
                 <<"1", "0", "0">>)
      [] slot = "ppe" ->
            Fact("PropertyPlantAndEquipment", "CurrentEnd", "Instant", scope, <<"3", "0", "0">>)

SlotOrder == <<"rev_t", "rev_t1", "ni_t", "cfo_t", "assets_prev_end", "rec_t", "rec_t1", "ppe">>

\* electronic claims at a period end: no row, or a row of the given amount
EclaimsRows(rel, scope, amount) ==
    IF amount = NULL THEN <<>>
    ELSE <<Fact("ElectronicallyRecordedMonetaryClaimsOperatingCA", rel, "Instant", scope,
                amount)>>

\* the table holding the slots of `present`, current net sales in sales_scope
\* and every other fact in scope
FactTable(present, sales_scope, scope, ecl_t, ecl_t1) ==
    LET kept == SelectSeq(SlotOrder, LAMBDA sl : sl \in present)
    IN  [columns |-> AllColumns,
         rows |-> [i \in 1..Len(kept) |->
                      SlotFact(kept[i], IF kept[i] = "rev_t" THEN sales_scope ELSE scope)]
                  \o EclaimsRows("CurrentEnd", scope, ecl_t)
                  \o EclaimsRows("PriorEnd", scope, ecl_t1)]

Scopes == {"Consolidated", "NonConsolidated"}

EclaimsAmounts == {NULL, <<"1", "5">>, <<"0">>}

FY2015Start == <<"2", "0", "1", "5", "-", "0", "4", "-", "0", "1">>

FY2015End == <<"2", "0", "1", "6", "-", "0", "3", "-", "3", "1">>

CompanyInfo == [edinet_code |-> EdinetCode, sec_code |-> "12340"]

ExtractMeta ==
    TSVMetadata(Path(EdinetCode, <<"S", "1">>), <<"Japan GAAP">>, 2015, FY2015Start,
                FY2015End, TS1, FALSE)

InitExtract ==
    /\ HAS_POLARS \in BOOLEAN
    /\ pc = "call"
    /\ \E present \in SUBSET Slots, sales_scope \in Scopes, scope \in Scopes,
          ecl_t \in EclaimsAmounts, ecl_t1 \in EclaimsAmounts, io \in {"ok", "load_error"} :
          /\ io = "load_error" => present = Slots /\ ecl_t = NULL /\ ecl_t1 = NULL
          /\ call = [fn |-> "extract_mj_data_from_tsv",
                     file |-> File(<<"S", "1">>, io,
                                   FactTable(present, sales_scope, scope, ecl_t, ecl_t1)),
                     meta |-> ExtractMeta,
                     company_info |-> CompanyInfo,
                     present |-> present, scope |-> scope, ecl_t |-> ecl_t]
    /\ ret = NotReturned
    /\ IdleProc

ExtractMjDataFromTsv ==
    /\ pc = "call"
    /\ call.fn = "extract_mj_data_from_tsv"
    /\ ret' = extract_mj_data_from_tsv(call.file, call.meta, call.company_info)
    /\ pc' = "returned"
    /\ UNCHANGED <<mainVars, HAS_POLARS, call, procVars>>

NextExtract == ExtractMjDataFromTsv

SpecExtract == InitExtract /\ [][NextExtract]_vars

\* the extractor returned a record
ExtractReturned ==
    pc = "returned" /\ call.fn = "extract_mj_data_from_tsv" /\ ret.mj # NoMJ

UsedScope == IF ret.mj.is_consolidated THEN "Consolidated" ELSE "NonConsolidated"

\* what the resolver gives for a receivables component of the filing at a period end
Resolved(element_ids, rel) ==
    extract_value_with_fallback_and_eid(call.file.df, element_ids, rel, "Instant",
                                        UsedScope).val

Synthesis(base, claims, synthesized) ==
    /\ base = None => synthesized = None
    /\ (base # None /\ claims = None) => synthesized = base
    /\ (base # None /\ claims # None) => synthesized = FAdd(base, claims)
    /\ synthesized # None => base # None

(* C5: at each period end the synthesized receivables value is None when   *)
(* the base did not resolve, whatever the electronic claims (base absent   *)
(* and claims 15 give None, not 15), the base itself when the claims are   *)
(* absent, and base + claims otherwise; it is never there without the      *)
(* base.                                                                   *)
C5_Receivables ==
    ExtractReturned =>
        /\ Synthesis(Resolved(ELEMENT_REC_BASE, "CurrentEnd"),
                     Resolved(ELEMENT_ECLAIMS, "CurrentEnd"), ret.mj.ar_end_t)
        /\ Synthesis(Resolved(ELEMENT_REC_BASE, "PriorEnd"),
                     Resolved(ELEMENT_ECLAIMS, "PriorEnd"), ret.mj.ar_end_t1)
        /\ ("rec_t" \notin call.present /\ call.ecl_t = <<"1", "5">>) =>
              ret.mj.ar_end_t = None /\ ret.mj.ar_end_t # Float(15)

\* base absent at the current end with claims of 15 resolved; base 100 with
\* no claims at the prior end
C5_Witness ==
    /\ ExtractReturned
    /\ "rec_t" \notin call.present
    /\ ret.mj.eclaims_end_t = Float(15)
    /\ ret.mj.ar_end_t = None
    /\ ret.mj.ar_end_t1_no_e = Float(100)
    /\ ret.mj.eclaims_end_t1 = None
    /\ ret.mj.ar_end_t1 = Float(100)

DerivedIff(metric, a, b) ==
    /\ metric # None <=> (a # None /\ b # None)
    /\ metric # None => metric = FSub(a, b)

(* C7: in every record the extractor returns, ta_t is there iff ni_t and   *)
(* cfo_t are, d_rev iff rev_t and rev_t1 are, d_ar iff ar_end_t and        *)
(* ar_end_t1 are; and when there, ta_t = ni_t - cfo_t,                     *)
(* d_rev = rev_t - rev_t1, d_ar = ar_end_t - ar_end_t1.                    *)
C7_DerivedMetrics ==
    ExtractReturned =>
        /\ DerivedIff(ret.mj.ta_t, ret.mj.ni_t, ret.mj.cfo_t)
        /\ DerivedIff(ret.mj.d_rev, ret.mj.rev_t, ret.mj.rev_t1)
        /\ DerivedIff(ret.mj.d_ar, ret.mj.ar_end_t, ret.mj.ar_end_t1)

\* accruals computed, the sales delta missing one operand, the receivables
\* delta computed from synthesized values
C7_Witness ==
    /\ ExtractReturned
    /\ ret.mj.ni_t = Float(50)
    /\ ret.mj.cfo_t = Float(70)
    /\ ret.mj.ta_t = Float(-20)
    /\ ret.mj.rev_t = Float(1000)
    /\ ret.mj.rev_t1 = None
    /\ ret.mj.d_rev = None
    /\ ret.mj.ar_end_t = Float(135)
    /\ ret.mj.ar_end_t1 = Float(100)
    /\ ret.mj.d_ar = Float(35)


\* the ten resolver calls of the extractor: the record field each fills, the
\* candidate list, the relative period and the period kind
ResolverCalls ==
    <<[field |-> "rev_t", ids |-> ELEMENT_NET_SALES, rel |-> "Current", ptype |-> "Duration"],
      [field |-> "rev_t1", ids |-> ELEMENT_NET_SALES, rel |-> "Prior", ptype |-> "Duration"],
      [field |-> "ni_t", ids |-> ELEMENT_PROFIT_LOSS, rel |-> "Current", ptype |-> "Duration"],
      [field |-> "cfo_t", ids |-> ELEMENT_OPERATING_CF, rel |-> "Current", ptype |-> "Duration"],
      [field |-> "assets_prev_end", ids |-> ELEMENT_ASSETS, rel |-> "PriorEnd", ptype |-> "Instant"],
      [field |-> "ar_end_t_no_e", ids |-> ELEMENT_REC_BASE, rel |-> "CurrentEnd", ptype |-> "Instant"],
      [field |-> "eclaims_end_t", ids |-> ELEMENT_ECLAIMS, rel |-> "CurrentEnd", ptype |-> "Instant"],
      [field |-> "ar_end_t1_no_e", ids |-> ELEMENT_REC_BASE, rel |-> "PriorEnd", ptype |-> "Instant"],
      [field |-> "eclaims_end_t1", ids |-> ELEMENT_ECLAIMS, rel |-> "PriorEnd", ptype |-> "Instant"],
      [field |-> "ppe_end_t", ids |-> ELEMENT_PPE, rel |-> "CurrentEnd", ptype |-> "Instant"]>>

\* the filing has a row of the call's tags, period and kind in the given
\* scope whose value normalizes to v
HasFact(df, c, scope, v) ==
    \E k \in 1..Len(df.rows) :
        /\ df.rows[k].Scope = scope
        /\ \E i \in 1..Len(c.ids) : df.rows[k].ElementID = <<"jppfs_cor:", c.ids[i]>>
        /\ df.rows[k].RelativeYear = c.rel
        /\ df.rows[k].PeriodType = c.ptype
        /\ normalize_value(df.rows[k].Value, df.rows[k].Unit) = v

\* C13: the record returned for a filing is flagged consolidated if and only
\* if the filing has a consolidated row of a net-sales tag in the current
\* period; each of the ten resolved fields is what the resolver gives in the
\* scope of the flag, and every value in the record comes from a row of that
\* scope, so no record holds values of two scopes; the debug entry carries the
\* same flag.
C13_OneScope ==
    ExtractReturned =>
        /\ ret.mj.is_consolidated <=>
              \E k \in 1..Len(call.file.df.rows) :
                 /\ call.file.df.rows[k].Scope = "Consolidated"
                 /\ call.file.df.rows[k].RelativeYear = "Current"
                 /\ \E i \in 1..Len(ELEMENT_NET_SALES) :
                       call.file.df.rows[k].ElementID = <<"jppfs_cor:", ELEMENT_NET_SALES[i]>>
        /\ ret.rec_debug.is_consolidated = ret.mj.is_consolidated
        /\ \A n \in 1..Len(ResolverCalls) : \A c \in {ResolverCalls[n]} :
              /\ ret.mj[c.field] =
                    extract_value_with_fallback(call.file.df, c.ids, c.rel, c.ptype, UsedScope)
              /\ ret.mj[c.field] # None => HasFact(call.file.df, c, UsedScope, ret.mj[c.field])

\* current net sales reported consolidated and everything else individually:
\* the record is flagged consolidated and takes nothing from the individual rows
C13_Witness ==
    /\ ExtractReturned
    /\ call.scope = "NonConsolidated"
    /\ call.present = Slots
    /\ ret.mj.is_consolidated
    /\ ret.mj.rev_t = Float(1000)
    /\ \A n \in 2..Len(ResolverCalls) : ret.mj[ResolverCalls[n].field] = None

\* C21: the rule tag of a record agrees with the base at each period end: the
\* record is tagged PLUS_E exactly when the base of the current end resolved
\* and exactly when the base of the prior end resolved, NO_BASE otherwise, so
\* a record tagged PLUS_E has its synthesized value at both period ends.
C21_RuleTagAtEachPeriodEnd ==
    ExtractReturned =>
        /\ ret.mj.rec_rule \in {"PLUS_E", "NO_BASE"}
        /\ ret.mj.rec_rule = "PLUS_E" <=> Resolved(ELEMENT_REC_BASE, "CurrentEnd") # None
        /\ ret.mj.rec_rule = "PLUS_E" <=> Resolved(ELEMENT_REC_BASE, "PriorEnd") # None
        /\ ret.mj.rec_rule = "PLUS_E" => ret.mj.ar_end_t # None /\ ret.mj.ar_end_t1 # None

\* the extractor on filings whose consolidated rows of current net sales are
\* not all usable: beside the facts of the table, one more consolidated row of
\* NetSales in the current period that carries a dash, belongs to a reportable
\* segment, or is of the instant kind
SalesRowKinds == {"dash", "segment", "instant"}

SalesRow(kind) ==
    CASE kind = "dash" ->
            Row(<<"jppfs_cor:", "NetSales">>, "Current", "Duration", "Consolidated",
                CtxPlain, <<"-">>, "yen")
      [] kind = "segment" ->
            Row(<<"jppfs_cor:", "NetSales">>, "Current", "Duration", "Consolidated",
                CtxSegment, <<"4", "0", "0">>, "yen")
      [] kind = "instant" ->
            Row(<<"jppfs_cor:", "NetSales">>, "Current", "Instant", "Consolidated",
                <<"CurrentYearInstant">>, <<"4", "0", "0">>, "yen")

WithSalesRow(df, kind) == [df EXCEPT !.rows = <<SalesRow(kind)>> \o @]

InitScope ==
    /\ HAS_POLARS \in BOOLEAN
    /\ pc = "call"
    /\ \E present \in SUBSET Slots, sales_scope \in Scopes, scope \in Scopes,
          kind \in SalesRowKinds :
          call = [fn |-> "extract_mj_data_from_tsv",
                  file |-> File(<<"S", "1">>, "ok",
                                WithSalesRow(FactTable(present, sales_scope, scope, NULL, NULL),
                                             kind)),
                  meta |-> ExtractMeta,
                  company_info |-> CompanyInfo,
                  present |-> present, scope |-> scope, ecl_t |-> NULL]
    /\ ret = NotReturned
    /\ IdleProc

SpecScope == InitScope /\ [][NextExtract]_vars

\* C30: a record flagged consolidated has its current net sales: the resolver
\* called for net sales of the current period in consolidated scope gives a
\* value, the record carries it, and the reasons do not name current net sales.
C30_ScopeCheckAgreesWithResolver ==
    ExtractReturned /\ ret.mj.is_consolidated =>
        /\ extract_value_with_fallback(call.file.df, ELEMENT_NET_SALES, "Current", "Duration",
                                       "Consolidated") # None
        /\ ret.mj.rev_t # None
        /\ \A k \in 1..Len(ret.missing_reasons) :
              ret.missing_reasons[k] # "rev_t (NetSales Current Consolidated)"

-----------------------------------------------------------------------------
(* process_company on a generated company directory *)

FY2016Start == <<"2", "0", "1", "6", "/", "0", "4", "/", "0", "1">>

FY2016End == <<"2", "0", "1", "7", "-", "0", "3", "-", "3", "1">>

FY2014Start == <<"2", "0", "1", "4", "-", "0", "4", "-", "0", "1">>

DeiRow(key, value) == Row(key, "", "", "", <<"FilingDateInstant">>, value, "")

\* the DEI rows of a filing: fiscal-year dates, and the accounting standard
\* and the submission timestamp when the filing carries them
DeiRows(start, end, std, dt_key, dt) ==
    <<DeiRow(DEI_FISCAL_YEAR_START, start), DeiRow(DEI_FISCAL_YEAR_END, end)>>
    \o (IF std = NULL THEN <<>> ELSE <<DeiRow(DEI_ACCOUNTING_STANDARDS, std)>>)
    \o (IF dt = NULL THEN <<>> ELSE <<DeiRow(DEI_SUBMIT_DATETIME_CANDIDATES[dt_key], dt)>>)

Filing(dei_rows, facts) == [columns |-> AllColumns, rows |-> dei_rows \o facts.rows]

\* the filing of the end-to-end scenario: fiscal year 2015, Japan GAAP, the
\* eight facts in consolidated scope
ScenarioFiling ==
    Filing(DeiRows(FY2015Start, FY2015End, <<"Japan GAAP">>, 1, TS1),
           FactTable(Slots, "Consolidated", "Consolidated", NULL, NULL))

\* the kinds of filing a generated directory holds; each carries its filing
\* date in full or not at all, so the sort of select_best_tsv never raises
FilingKinds == {"scenario", "no_base", "standalone", "no_ppe", "ifrs", "unreadable",
                "load_error", "out_of_range"}

FilingOf(kind, stem) ==
    CASE kind = "scenario" -> File(stem, "ok", ScenarioFiling)
      [] kind = "no_base" ->
            File(stem, "ok",
                 Filing(DeiRows(FY2015Start, FY2015End, <<"Japan GAAP">>, 3, TS2),
                        FactTable(Slots \ {"rec_t"}, "Consolidated", "Consolidated",
                                  <<"1", "5">>, NULL)))
      [] kind = "standalone" ->
            File(stem, "ok",
                 Filing(DeiRows(FY2016Start, FY2016End, NULL, 1, NULL),
                        FactTable(Slots, "NonConsolidated", "NonConsolidated", NULL, NULL)))
      [] kind = "no_ppe" ->
            File(stem, "ok",
                 Filing(DeiRows(FY2016Start, FY2016End, <<"Japan GAAP">>, 2, TS1),
                        FactTable(Slots \ {"ppe"}, "Consolidated", "Consolidated", NULL, NULL)))
      [] kind = "ifrs" ->
            File(stem, "ok",
                 Filing(DeiRows(FY2015Start, FY2015End, <<"IFRS">>, 1, TS2),
                        [columns |-> AllColumns,
                         rows |-> <<Row(<<"ifrs-full:", "Revenue">>, "Current", "Duration",
                                        "Consolidated", <<"CurrentYearDuration">>,
                                        <<"1", "0", "0", "0">>, "yen")>>]))
      [] kind = "unreadable" -> File(stem, "unreadable", ScenarioFiling)
      [] kind = "load_error" ->
            File(stem, "load_error",
                 Filing(DeiRows(FY2016Start, FY2016End, <<"Japan GAAP">>, 1, TS1),
                        FactTable(Slots, "Consolidated", "Consolidated", NULL, NULL)))
      [] kind = "no_filing_date" ->
            File(stem, "ok",
                 Filing(DeiRows(FY2016Start, FY2016End, <<"Japan GAAP">>, 1, NULL)
                            \o <<DeiRow(DEI_SUBMIT_DATETIME_CANDIDATES[1], NULL)>>,
                        FactTable(Slots, "Consolidated", "Consolidated", NULL, NULL)))
      [] kind = "out_of_range" ->
            File(stem, "ok",
                 Filing(DeiRows(FY2014Start, FY2015End, <<"Japan GAAP">>, 1, TS1),
                        FactTable(Slots, "Consolidated", "Consolidated", NULL, NULL)))
      [] kind = "mixed_standard" ->
            File(stem, "ok",
                 Filing(DeiRows(FY2016Start, FY2016End, <<"Japan GAAP", " and IFRS">>, 1, TS1),
                        FactTable(Slots, "Consolidated", "Consolidated", NULL, NULL)))
      [] kind = "empty_standard" ->
            File(stem, "ok",
                 Filing(DeiRows(FY2016Start, FY2016End, NULL, 1, TS1)
                            \o <<DeiRow(DEI_ACCOUNTING_STANDARDS, NULL)>>,
                        FactTable(Slots, "Consolidated", "Consolidated", NULL, NULL)))
      [] kind = "foreign_tag" ->
            File(stem, "ok",
                 Filing(DeiRows(FY2016Start, FY2016End, <<"Japan GAAP">>, 1, TS1),
                        [columns |-> AllColumns,
                         rows |-> <<Row(<<"us-gaap:", "Revenues">>, "Current", "Duration",
                                        "Consolidated", <<"CurrentYearDuration">>,
                                        <<"1", "0", "0", "0">>, "yen")>>]))
      [] kind = "other_standard" ->
            File(stem, "ok",
                 Filing(DeiRows(FY2015Start, FY2015End, <<"US GAAP">>, 1, TS1),
                        FactTable(Slots, "Consolidated", "Consolidated", NULL, NULL)))

\* a directory entry names a file and the filing it holds
Entry(stem, kind) == [stem |-> stem, kind |-> kind]

\* the files of a directory, as reading them gives them
Files(dir) == [i \in 1..Len(dir) |-> FilingOf(dir[i].kind, dir[i].stem)]

\* the directories of n files of distinct names, in any glob order
CompanyDirs(n) ==
    {[i \in 1..n |-> Entry(stems[i], kinds[i])] :
        stems \in {st \in [1..n -> DocIds] : \A i, j \in 1..n : i # j => st[i] # st[j]},
        kinds \in [1..n -> FilingKinds]}

Init ==
    /\ HAS_POLARS \in BOOLEAN
    /\ pc = "scan"
    /\ call = NoCall
    /\ ret = NotReturned
    /\ \E n \in 0..MaxFiles : company_dir \in CompanyDirs(n)
    /\ metas = <<>>
    /\ non_japan_gaap_by_year = <<>>
    /\ fy = FISCAL_YEAR_MIN
    /\ mj_inputs = <<>>
    /\ missing_logs = <<>>
    /\ duplicate_logs = <<>>
    /\ rec_debug_logs = <<>>
    /\ IdleMain

\* Phase A
ScanTsvs ==
    /\ pc = "scan"
    /\ LET scanned == scan_tsvs_for_company(Files(company_dir), EdinetCode)
       IN  /\ metas' = scanned.metas
           /\ non_japan_gaap_by_year' = scanned.non_japan_gaap_by_year
    /\ pc' = "years"
    /\ UNCHANGED <<mainVars, HAS_POLARS, call, ret, company_dir, fy,
                   mj_inputs, missing_logs, duplicate_logs, rec_debug_logs>>

\* Phase B, one pass of the loop over the fiscal years
InYearLoop == pc = "years" /\ fy <= FISCAL_YEAR_MAX

\* select_best_tsv(year_metas, edinet_code, fy)
Selected(year) == select_best_tsv(YearMetasOf(metas, year), EdinetCode, year)

\* extract_mj_data_from_tsv(chosen_meta.tsv_path, chosen_meta, company_info)
Extracted(chosen_meta) ==
    extract_mj_data_from_tsv(FileAt(Files(company_dir), chosen_meta.tsv_path),
                             chosen_meta, CompanyInfo)

\* a year without a filing is passed over without a log entry
YearWithoutFiling_silent ==
    /\ InYearLoop
    /\ YearMetasOf(metas, fy) = <<>>
    /\ fy' = fy + 1
    /\ UNCHANGED <<mainVars, HAS_POLARS, pc, call, ret, company_dir, metas, non_japan_gaap_by_year,
                   mj_inputs, missing_logs, duplicate_logs, rec_debug_logs>>

YearWithoutFiling ==
    /\ InYearLoop
    /\ YearMetasOf(metas, fy) = <<>>
    /\ missing_logs' =
          Append(missing_logs,
                 MissingLog(EdinetCode, fy, <<>>,
                            IF fy \in DOMAIN non_japan_gaap_by_year
                            THEN "accounting_standard: " \o non_japan_gaap_by_year[fy]
                            ELSE "no_tsv_found_for_year"))
    /\ fy' = fy + 1
    /\ UNCHANGED <<mainVars, HAS_POLARS, pc, call, ret, company_dir, metas, non_japan_gaap_by_year,
                   mj_inputs, duplicate_logs, rec_debug_logs>>

\* what every pass that selected a filing does around its branch
AfterSelection(sel, x) ==
    /\ duplicate_logs' = duplicate_logs \o sel.duplicate_logs
    /\ rec_debug_logs' = IF x.rec_debug # NoRecDebug
                         THEN Append(rec_debug_logs, x.rec_debug)
                         ELSE rec_debug_logs
    /\ fy' = fy + 1
    /\ UNCHANGED <<mainVars, HAS_POLARS, pc, call, ret, company_dir, metas, non_japan_gaap_by_year>>

\* the reasons returned with the filing are not logged
LogMissing_dropped(sel, x) == missing_logs' = missing_logs

LogMissing(sel, x) ==
    missing_logs' =
        IF x.missing_reasons # <<>>
        THEN Append(missing_logs,
                    MissingLog(EdinetCode, fy, PathStr(sel.chosen.tsv_path),
                               Join(x.missing_reasons)))
        ELSE missing_logs

\* the failed load of the selected filing is not logged
YearLoadFailed_silent ==
    /\ InYearLoop
    /\ YearMetasOf(metas, fy) # <<>>
    /\ \E sel \in {Selected(fy)} : sel.chosen # NoMeta /\ \E x \in {Extracted(sel.chosen)} :
          /\ x.mj = NoMJ
          /\ AfterSelection(sel, x)
          /\ UNCHANGED <<mj_inputs, missing_logs>>

YearLoadFailed ==
    /\ InYearLoop
    /\ YearMetasOf(metas, fy) # <<>>
    /\ \E sel \in {Selected(fy)} : sel.chosen # NoMeta /\ \E x \in {Extracted(sel.chosen)} :
          /\ x.mj = NoMJ
          /\ AfterSelection(sel, x)
          /\ LogMissing(sel, x)
          /\ UNCHANGED mj_inputs

YearIncomplete ==
    /\ InYearLoop
    /\ YearMetasOf(metas, fy) # <<>>
    /\ \E sel \in {Selected(fy)} : sel.chosen # NoMeta /\ \E x \in {Extracted(sel.chosen)} :
          /\ x.mj # NoMJ
          /\ ~IsComplete(x.mj, x.missing_reasons)
          /\ AfterSelection(sel, x)
          /\ LogMissing(sel, x)
          /\ UNCHANGED mj_inputs

YearComplete ==
    /\ InYearLoop
    /\ YearMetasOf(metas, fy) # <<>>
    /\ \E sel \in {Selected(fy)} : sel.chosen # NoMeta /\ \E x \in {Extracted(sel.chosen)} :
          /\ IsComplete(x.mj, x.missing_reasons)
          /\ AfterSelection(sel, x)
          /\ mj_inputs' = Append(mj_inputs, x.mj)
          /\ UNCHANGED missing_logs

Return ==
    /\ pc = "years"
    /\ fy > FISCAL_YEAR_MAX
    /\ pc' = "done"
    /\ UNCHANGED <<mainVars, HAS_POLARS, call, ret, procVars>>

Next ==
    \/ ScanTsvs
    \/ YearWithoutFiling
    \/ YearLoadFailed
    \/ YearIncomplete
    \/ YearComplete
    \/ Return

Spec == Init /\ [][Next]_vars

\* the fiscal years the loop has gone through
ProcessedYears == IF pc = "scan" THEN {} ELSE FISCAL_YEAR_MIN..(fy - 1)

RecordsOf(year) == SelectSeq(mj_inputs, LAMBDA r : r.fiscal_year = year)

\* the missing-field entries of a year that name a filing
FilingEntriesOf(year) ==
    SelectSeq(missing_logs, LAMBDA l : l.fiscal_year = year /\ l.tsv_path # <<>>)

DuplicatesOf(year) == SelectSeq(duplicate_logs, LAMBDA d : d.fiscal_year = year)

\* C3: for every company-year gone through, the complete-case records and the
\* missing-field entries together name one filing when the year has an eligible
\* filing and none otherwise, at most one extraction is logged, and the
\* duplicate-filing log holds each other eligible filing of the year exactly
\* once as skipped in favour of that filing: n eligible filings, n - 1 entries,
\* none of them skipping the selected filing.
C3_OneFilingPerYear ==
    \A y \in ProcessedYears :
        LET eligible == YearMetasOf(metas, y)
            dups == DuplicatesOf(y)
        IN  /\ Len(RecordsOf(y)) + Len(FilingEntriesOf(y)) = (IF eligible = <<>> THEN 0 ELSE 1)
            /\ Cardinality({i \in 1..Len(rec_debug_logs) :
                               rec_debug_logs[i].fiscal_year = y}) <= 1
            /\ Len(dups) = (IF eligible = <<>> THEN 0 ELSE Len(eligible) - 1)
            /\ eligible # <<>> =>
                  \E c \in ToSet(eligible) :
                     /\ \A r \in ToSet(RecordsOf(y)) : r.tsv_path = PathStr(c.tsv_path)
                     /\ \A l \in ToSet(FilingEntriesOf(y)) : l.tsv_path = PathStr(c.tsv_path)
                     /\ \A d \in ToSet(dups) :
                           /\ d.chosen_tsv = PathName(c.tsv_path)
                           /\ d.skipped_tsv # PathName(c.tsv_path)
                     /\ \A m \in ToSet(eligible) \ {c} :
                           Cardinality({i \in 1..Len(dups) :
                                           dups[i].skipped_tsv = PathName(m.tsv_path)}) = 1

\* three eligible filings of 2015, one of them extracted into a record, the
\* other two logged
C3_Witness ==
    /\ pc = "done"
    /\ Len(YearMetasOf(metas, 2015)) = 3
    /\ Len(RecordsOf(2015)) = 1
    /\ Len(DuplicatesOf(2015)) = 2

\* C6: for every company-year gone through that has an eligible filing, the
\* record extracted from the selected filing is in the complete-case output if
\* and only if the reasons returned with it are empty, and when they are not,
\* the year has its missing-field entry instead; a year without an eligible
\* filing has no record.
C6_CompleteIffNoReasons ==
    \A y \in ProcessedYears :
        IF YearMetasOf(metas, y) = <<>> THEN RecordsOf(y) = <<>>
        ELSE \A x \in {Extracted(Selected(y).chosen)} :
                /\ RecordsOf(y) # <<>> <=> x.missing_reasons = <<>>
                /\ RecordsOf(y) # <<>> => RecordsOf(y) = <<x.mj>>
                /\ x.missing_reasons # <<>> =>
                      \E l \in ToSet(FilingEntriesOf(y)) :
                          l.missing_reason = Join(x.missing_reasons)

\* a run that kept the record of 2016 and logged the filing of 2015 that has no
\* receivables base at the current end
C6_Witness ==
    /\ pc = "done"
    /\ Len(RecordsOf(2016)) = 1
    /\ RecordsOf(2015) = <<>>
    /\ \E l \in ToSet(FilingEntriesOf(2015)) :
          l.missing_reason =
              "ar_end_t (REC base CurrentEnd Consolidated); d_ar (ar_end_t - ar_end_t1)"

RequiredFields == {"rev_t", "rev_t1", "ni_t", "cfo_t", "assets_prev_end", "ar_end_t",
                   "ar_end_t1", "ppe_end_t", "ta_t", "d_rev", "d_ar"}

\* C8: every record of the complete-case output has a value in each required
\* field: current and prior net sales, net income, operating cash flow,
\* prior-period-end total assets, the synthesized receivables at both period
\* ends, current-end PP&E, and the three derived metrics.
C8_RequiredFieldsPresent ==
    \A i \in 1..Len(mj_inputs) : \A f \in RequiredFields : mj_inputs[i][f] # None

\* a run that kept two records, one consolidated and one not, each with its
\* PP&E and its receivables delta
C8_Witness ==
    /\ pc = "done"
    /\ Len(mj_inputs) = 2
    /\ mj_inputs[1].is_consolidated
    /\ ~mj_inputs[2].is_consolidated
    /\ \A i \in 1..2 : mj_inputs[i].ppe_end_t = Float(300) /\ mj_inputs[i].d_ar = Float(20)

\* the company has one eligible filing, the filing of the end-to-end scenario
ScenarioRun ==
    /\ pc = "done"
    /\ Len(metas) = 1
    /\ \A f \in {FileAt(Files(company_dir), metas[1].tsv_path)} :
          f.io = "ok" /\ f.df = ScenarioFiling

\* C9: when the company's one eligible filing is the scenario filing (fiscal
\* year 2015; consolidated sales 1000 and 800, net income 50, operating cash
\* flow 70, prior-end assets 900, receivables 120 and 100, PP&E 300),
\* process_company returns exactly one record, of 2015, with accruals -20,
\* sales delta 200, receivables delta 20 and the consolidated flag set, and no
\* missing-field entry for 2015.
C9_EndToEnd ==
    ScenarioRun =>
        /\ Len(mj_inputs) = 1
        /\ mj_inputs[1].fiscal_year = 2015
        /\ mj_inputs[1].ta_t = Float(0 - 20)
        /\ mj_inputs[1].d_rev = Float(200)
        /\ mj_inputs[1].d_ar = Float(20)
        /\ mj_inputs[1].is_consolidated
        /\ \A i \in 1..Len(missing_logs) : missing_logs[i].fiscal_year # 2015

\* the scenario run on a directory of that single file
C9_Witness ==
    /\ ScenarioRun
    /\ Len(company_dir) = 1
    /\ Len(mj_inputs) = 1
    /\ mj_inputs[1].rev_t = Float(1000)

\* the required fields, in the order the extractor tests them
RequiredOrder ==
    <<"rev_t", "rev_t1", "ni_t", "cfo_t", "assets_prev_end", "ar_end_t", "ar_end_t1",
      "ppe_end_t", "ta_t", "d_rev", "d_ar">>

\* the reason that names a required field, for a filing read in scope ct
ReasonText(f, ct) ==
    CASE f = "rev_t" -> "rev_t (NetSales Current " \o ct \o ")"
      [] f = "rev_t1" -> "rev_t1 (NetSales Prior " \o ct \o ")"
      [] f = "ni_t" -> "ni_t (ProfitLoss Current " \o ct \o ")"
      [] f = "cfo_t" -> "cfo_t (OperatingCF Current " \o ct \o ")"
      [] f = "assets_prev_end" -> "assets_prev_end (Assets PriorEnd " \o ct \o ")"
      [] f = "ar_end_t" -> "ar_end_t (REC base CurrentEnd " \o ct \o ")"
      [] f = "ar_end_t1" -> "ar_end_t1 (REC base PriorEnd " \o ct \o ")"
      [] f = "ppe_end_t" -> "ppe_end_t (PPE CurrentEnd " \o ct \o ")"
      [] f = "ta_t" -> "ta_t (ni_t - cfo_t)"
      [] f = "d_rev" -> "d_rev (rev_t - rev_t1)"
      [] f = "d_ar" -> "d_ar (ar_end_t - ar_end_t1)"

ScopeOf(mj) == IF mj.is_consolidated THEN "Consolidated" ELSE "NonConsolidated"

\* one reason for each required field the record lacks
ExpectedReasons(mj) ==
    LET unresolved == SelectSeq(RequiredOrder, LAMBDA f : mj[f] = None)
    IN  [i \in 1..Len(unresolved) |-> ReasonText(unresolved[i], ScopeOf(mj))]

\* C22: for every company-year gone through whose selected filing loaded,
\* the reasons returned are one reason for each required field (the three
\* derived metrics included) that did not resolve; the year has one
\* missing-field entry holding all of them when there is any, and none
\* otherwise; and each resolved field of the record returned is the value the
\* resolver gives for it.
C22_EveryUnresolvedFieldLogged ==
    \A y \in ProcessedYears :
        YearMetasOf(metas, y) # <<>> =>
            \A chosen \in {Selected(y).chosen} : \A x \in {Extracted(chosen)} :
                x.mj # NoMJ =>
                    /\ x.missing_reasons = ExpectedReasons(x.mj)
                    /\ FilingEntriesOf(y) =
                          (IF ExpectedReasons(x.mj) = <<>> THEN <<>>
                           ELSE <<MissingLog(EdinetCode, y, PathStr(chosen.tsv_path),
                                             Join(ExpectedReasons(x.mj)))>>)
                    /\ \A n \in 1..Len(ResolverCalls) : \A c \in {ResolverCalls[n]} :
                          x.mj[c.field] =
                             extract_value_with_fallback(
                                 FileAt(Files(company_dir), chosen.tsv_path).df,
                                 c.ids, c.rel, c.ptype, ScopeOf(x.mj))

\* a run with one entry for 2015, naming the current-end receivables and the
\* receivables delta, and one entry for 2016, naming the PP&E
C22_Witness ==
    /\ pc = "done"
    /\ Len(FilingEntriesOf(2015)) = 1
    /\ FilingEntriesOf(2015)[1].missing_reason =
          "ar_end_t (REC base CurrentEnd Consolidated); d_ar (ar_end_t - ar_end_t1)"
    /\ Len(FilingEntriesOf(2016)) = 1
    /\ FilingEntriesOf(2016)[1].missing_reason = "ppe_end_t (PPE CurrentEnd Consolidated)"

\* every missing-field entry of a year, with or without a filing reference
EntriesOf(year) == SelectSeq(missing_logs, LAMBDA l : l.fiscal_year = year)

DebugEntriesOf(year) == SelectSeq(rec_debug_logs, LAMBDA r : r.fiscal_year = year)

\* the files of the directory that read as a filing of the year under a
\* standard other than Japan GAAP
SeenIneligible(year) ==
    {i \in 1..Len(company_dir) : company_dir[i].kind = "ifrs" /\ year = 2015}

\* C23: for every fiscal year gone through for which the company has no
\* eligible filing, the missing-field log holds exactly one entry of that year;
\* its filing reference is empty and its reason is the wrong-standard reason
\* recorded for the year when an ineligible filing of the year was seen, and
\* the no-filing reason otherwise; the year has no record, no duplicate-filing
\* entry and no receivables-debug entry.
C23_YearWithoutEligibleFiling ==
    \A y \in ProcessedYears :
        YearMetasOf(metas, y) = <<>> =>
            /\ EntriesOf(y) =
                  <<MissingLog(EdinetCode, y, <<>>,
                               IF y \in DOMAIN non_japan_gaap_by_year
                               THEN "accounting_standard: " \o non_japan_gaap_by_year[y]
                               ELSE "no_tsv_found_for_year")>>
            /\ y \in DOMAIN non_japan_gaap_by_year <=> SeenIneligible(y) # {}
            /\ RecordsOf(y) = <<>>
            /\ DuplicatesOf(y) = <<>>
            /\ DebugEntriesOf(y) = <<>>

\* a finished run over a directory whose only filing of 2015 is under IFRS and
\* that has no filing of 2017
C23_Witness ==
    /\ pc = "done"
    /\ EntriesOf(2015) = <<MissingLog(EdinetCode, 2015, <<>>, "accounting_standard: IFRS")>>
    /\ EntriesOf(2017) = <<MissingLog(EdinetCode, 2017, <<>>, "no_tsv_found_for_year")>>
    /\ RecordsOf(2016) # <<>>

\* the full load of the filing selected for the year fails
LoadFails(year) ==
    /\ YearMetasOf(metas, year) # <<>>
    /\ FileAt(Files(company_dir), Selected(year).chosen.tsv_path).io # "ok"

\* C26: for every company-year gone through whose selected filing fails to
\* load, the missing-field log holds exactly one entry of the year, which
\* carries the read error and names that filing; the year has no record and
\* no receivables-debug entry, so no other filing of the year was loaded in
\* its place (the others are only logged as skipped in favour of it); and the
\* loop goes on: at the return every later year has its record or its entry.
C26_NoRetryOnLoadFailure ==
    \A y \in ProcessedYears :
        LoadFails(y) =>
            \A chosen \in {Selected(y).chosen} :
                /\ EntriesOf(y) =
                      <<MissingLog(EdinetCode, y, PathStr(chosen.tsv_path), "TSV read error")>>
                /\ RecordsOf(y) = <<>>
                /\ DebugEntriesOf(y) = <<>>
                /\ Len(DuplicatesOf(y)) = Len(YearMetasOf(metas, y)) - 1
                /\ \A d \in ToSet(DuplicatesOf(y)) : d.chosen_tsv = PathName(chosen.tsv_path)
                /\ pc = "done" =>
                      \A z \in (y + 1)..FISCAL_YEAR_MAX :
                          Len(EntriesOf(z)) + Len(RecordsOf(z)) = 1

\* a finished run in which the filing selected for 2016 failed to load while
\* another filing of 2016 was there, after the record of 2015 was kept
C26_Witness ==
    /\ pc = "done"
    /\ LoadFails(2016)
    /\ Len(YearMetasOf(metas, 2016)) = 2
    /\ Len(DuplicatesOf(2016)) = 1
    /\ EntriesOf(2016)[1].missing_reason = "TSV read error"
    /\ Len(RecordsOf(2015)) = 1
    /\ Len(EntriesOf(2017)) = 1

\* the fiscal years named in the four collections
YearsNamed ==
    {mj_inputs[k].fiscal_year : k \in 1..Len(mj_inputs)}
    \cup {missing_logs[k].fiscal_year : k \in 1..Len(missing_logs)}
    \cup {duplicate_logs[k].fiscal_year : k \in 1..Len(duplicate_logs)}
    \cup {rec_debug_logs[k].fiscal_year : k \in 1..Len(rec_debug_logs)}

\* C29: when process_company returns, every fiscal year of the range has
\* either one complete-case record or one missing-field entry, never both and
\* never neither; and at no point does a record or a log entry name a year
\* outside the range.
C29_OneOutcomePerYear ==
    /\ pc = "done" =>
          \A y \in FISCAL_YEAR_MIN..FISCAL_YEAR_MAX :
              \/ Len(RecordsOf(y)) = 1 /\ EntriesOf(y) = <<>>
              \/ RecordsOf(y) = <<>> /\ Len(EntriesOf(y)) = 1
    /\ YearsNamed \subseteq FISCAL_YEAR_MIN..FISCAL_YEAR_MAX

\* a finished run over a filing of 2014 and filings of 2015 and 2016: the
\* record of 2015, the entry of 2016 for its filing, the entry of 2017
C29_Witness ==
    /\ pc = "done"
    /\ \E i \in 1..Len(company_dir) : company_dir[i].kind = "out_of_range"
    /\ Len(RecordsOf(2015)) = 1
    /\ Len(FilingEntriesOf(2016)) = 1
    /\ Len(EntriesOf(2017)) = 1
    /\ Len(missing_logs) = 9

\* the scan alone, over directories of filings of every standing: Japan GAAP,
\* no standard row, another standard, a standard text that holds "Japan GAAP"
\* among other words, a standard row with an empty cell, a foreign tag with or
\* without a foreign standard, a year out of range, an unreadable file
ScanKinds == {"scenario", "standalone", "ifrs", "other_standard", "mixed_standard",
              "empty_standard", "foreign_tag", "out_of_range", "unreadable"}

ScanDirs(n) ==
    {[i \in 1..n |-> Entry(stems[i], kinds[i])] :
        stems \in {st \in [1..n -> DocIds] : \A i, j \in 1..n : i # j => st[i] # st[j]},
        kinds \in [1..n -> ScanKinds]}

InitScan ==
    /\ HAS_POLARS \in BOOLEAN
    /\ pc = "scan"
    /\ call = NoCall
    /\ ret = NotReturned
    /\ \E n \in 0..MaxFiles : company_dir \in ScanDirs(n)
    /\ metas = <<>>
    /\ non_japan_gaap_by_year = <<>>
    /\ fy = FISCAL_YEAR_MIN
    /\ mj_inputs = <<>>
    /\ missing_logs = <<>>
    /\ duplicate_logs = <<>>
    /\ rec_debug_logs = <<>>
    /\ IdleMain

SpecScan == InitScan /\ [][ScanTsvs]_vars

\* what a readable filing of each kind declares: its fiscal year, the text of
\* its accounting-standard cell (NULL when it has no such row or the cell is
\* empty), and whether one of its tags is in a foreign-standard namespace
Declared(kind) ==
    CASE kind = "scenario" -> [year |-> 2015, standard |-> <<"Japan GAAP">>, foreign |-> FALSE]
      [] kind = "standalone" -> [year |-> 2016, standard |-> NULL, foreign |-> FALSE]
      [] kind = "ifrs" -> [year |-> 2015, standard |-> <<"IFRS">>, foreign |-> TRUE]
      [] kind = "other_standard" ->
            [year |-> 2015, standard |-> <<"US GAAP">>, foreign |-> FALSE]
      [] kind = "mixed_standard" ->
            [year |-> 2016, standard |-> <<"Japan GAAP", " and IFRS">>, foreign |-> FALSE]
      [] kind = "empty_standard" -> [year |-> 2016, standard |-> NULL, foreign |-> FALSE]
      [] kind = "foreign_tag" ->
            [year |-> 2016, standard |-> <<"Japan GAAP">>, foreign |-> TRUE]
      [] kind = "out_of_range" ->
            [year |-> 2014, standard |-> <<"Japan GAAP">>, foreign |-> FALSE]

InRange(year) == FISCAL_YEAR_MIN <= year /\ year <= FISCAL_YEAR_MAX

\* the files of the directory that read as filings of a year in range
ScannedInRange ==
    {i \in 1..Len(company_dir) :
        company_dir[i].kind # "unreadable" /\ InRange(Declared(company_dir[i].kind).year)}

\* C24: after the scan, a filing with a fiscal year in range is among the
\* eligible filings only if its accounting-standard value is absent or equals
\* "Japan GAAP" and it has no tag in the namespaces ifrs-full: and us-gaap:;
\* every other such filing is left out and its fiscal year has a
\* wrong-standard reason.
C24_EligibleOnlyIfJapanGaap ==
    pc = "years" =>
        \A i \in ScannedInRange : \A d \in {Declared(company_dir[i].kind)} :
            LET selected == \E k \in 1..Len(metas) : metas[k].doc_id = company_dir[i].stem
                eligible == d.standard \in {NULL, <<"Japan GAAP">>} /\ ~d.foreign
            IN  /\ selected => eligible
                /\ ~eligible => ~selected /\ d.year \in DOMAIN non_japan_gaap_by_year

-----------------------------------------------------------------------------
(* main: the thread pool over the target companies *)

\* most companies in the target list
MaxCompanies == 2

\* the locals of one process_company call
Task(state, dir) ==
    [state |-> state, dir |-> dir, metas |-> <<>>, non_japan_gaap_by_year |-> <<>>,
     fy |-> FISCAL_YEAR_MIN, mj_inputs |-> <<>>, missing_logs |-> <<>>,
     duplicate_logs |-> <<>>, rec_debug_logs |-> <<>>]

\* Phase A of process_company, on the locals of a task
ScanPass(t, info) ==
    LET scanned == scan_tsvs_for_company(Files(t.dir), info.edinet_code)
    IN  [t EXCEPT !.state = "years", !.metas = scanned.metas,
                  !.non_japan_gaap_by_year = scanned.non_japan_gaap_by_year]

\* the rest of a pass of Phase B once the filing is selected and extracted
PassWithExtraction(t, info, sel, x) ==
    [t EXCEPT !.duplicate_logs = @ \o sel.duplicate_logs,
              !.rec_debug_logs = IF x.rec_debug # NoRecDebug THEN Append(@, x.rec_debug) ELSE @,
              !.missing_logs = IF x.missing_reasons # <<>>
                               THEN Append(@, MissingLog(info.edinet_code, t.fy,
                                                         PathStr(sel.chosen.tsv_path),
                                                         Join(x.missing_reasons)))
                               ELSE @,
              !.mj_inputs = IF IsComplete(x.mj, x.missing_reasons) THEN Append(@, x.mj) ELSE @,
              !.fy = @ + 1]

PassWithSelection(t, info, sel) ==
    IF sel.chosen = NoMeta
    THEN [t EXCEPT !.duplicate_logs = @ \o sel.duplicate_logs, !.fy = @ + 1]
    ELSE PassWithExtraction(t, info, sel,
                            extract_mj_data_from_tsv(FileAt(Files(t.dir), sel.chosen.tsv_path),
                                                     sel.chosen, info))

\* one pass of the loop of Phase B, on the locals of a task; an exception of
\* select_best_tsv leaves process_company at once, with nothing returned
YearPass(t, info) ==
    IF YearMetasOf(t.metas, t.fy) = <<>>
    THEN [t EXCEPT !.missing_logs =
                      Append(@, MissingLog(info.edinet_code, t.fy, <<>>,
                                  IF t.fy \in DOMAIN t.non_japan_gaap_by_year
                                  THEN "accounting_standard: " \o t.non_japan_gaap_by_year[t.fy]
                                  ELSE "no_tsv_found_for_year")),
                  !.fy = @ + 1]
    ELSE IF SortRaises(YearMetasOf(t.metas, t.fy))
    THEN [t EXCEPT !.state = "raised"]
    ELSE PassWithSelection(t, info,
                           select_best_tsv(YearMetasOf(t.metas, t.fy), info.edinet_code, t.fy))

\* the locals of process_company from the end of Phase A on, pass after pass,
\* up to its return or its exception
RECURSIVE RunFrom(_, _)
RunFrom(t, info) ==
    IF t.state = "years" /\ t.fy <= FISCAL_YEAR_MAX
    THEN <<t>> \o RunFrom(YearPass(t, info), info)
    ELSE <<t>>

\* the "except Exception" clause is left out: the exception of future.result()
\* leaves main
HandlerState_uncaught(state) == IF state = "raised" THEN "aborted" ELSE "merging"

\* main after the body of the as_completed loop for a future in that state
HandlerState(state) == "merging"

\* the aggregates are assigned the batch instead of being extended with it
Aggregated_last_only(agg, t) ==
    IF t.state = "returned"
    THEN [mj_inputs |-> t.mj_inputs, missing_logs |-> t.missing_logs,
          duplicate_logs |-> t.duplicate_logs, rec_debug_logs |-> t.rec_debug_logs]
    ELSE agg

\* the four aggregates after the body of the as_completed loop for a future:
\* extended with the tuple future.result() returns, untouched when it raises
Aggregated(agg, t) ==
    IF t.state = "returned"
    THEN [mj_inputs |-> agg.mj_inputs \o t.mj_inputs,
          missing_logs |-> agg.missing_logs \o t.missing_logs,
          duplicate_logs |-> agg.duplicate_logs \o t.duplicate_logs,
          rec_debug_logs |-> agg.rec_debug_logs \o t.rec_debug_logs]
    ELSE agg

\* a company with one complete year
DirComplete == <<Entry(<<"S", "1">>, "scenario")>>

\* a company whose filings are all of fiscal year 2016, taken individually
DirStandalone == <<Entry(<<"S", "1">>, "standalone")>>

\* a company with a complete year 2015 and two filings of 2016, one of them
\* with its filing date left empty
DirEmptyDate ==
    <<Entry(<<"S", "1">>, "scenario"), Entry(<<"S", "2">>, "no_ppe"),
      Entry(<<"S", "3">>, "no_filing_date")>>

DriverDirs == {DirComplete, DirStandalone, DirEmptyDate}

\* company_info of the i-th row of the target list
CompanyInfoOf(i) == [edinet_code |-> <<"E", DigitGlyph[i]>>, sec_code |-> "12340"]

Company(i, dir) == [info |-> CompanyInfoOf(i), dir |-> dir]

Aggregates ==
    [mj_inputs |-> all_mj_inputs, missing_logs |-> all_missing_logs,
     duplicate_logs |-> all_duplicate_logs, rec_debug_logs |-> all_rec_debug_logs]

aggVars == <<all_mj_inputs, all_missing_logs, all_duplicate_logs, all_rec_debug_logs>>

\* the state once every company is submitted to the executor
InitMain ==
    /\ HAS_POLARS \in BOOLEAN
    /\ pc = "main"
    /\ call = NoCall
    /\ ret = NotReturned
    /\ company_dir = <<>>
    /\ metas = <<>>
    /\ non_japan_gaap_by_year = <<>>
    /\ fy = 0
    /\ mj_inputs = <<>>
    /\ missing_logs = <<>>
    /\ duplicate_logs = <<>>
    /\ rec_debug_logs = <<>>
    /\ \E n \in 1..MaxCompanies :
          companies \in {[i \in 1..n |-> Company(i, dirs[i])] : dirs \in [1..n -> DriverDirs]}
    /\ num_workers \in 1..MaxCompanies
    /\ runs = [i \in 1..Len(companies) |->
                  RunFrom(ScanPass(Task("scan", companies[i].dir), companies[i].info),
                          companies[i].info)]
    /\ tasks = [i \in 1..Len(companies) |-> Task("queued", companies[i].dir)]
    /\ consumed = {}
    /\ all_mj_inputs = <<>>
    /\ all_missing_logs = <<>>
    /\ all_duplicate_logs = <<>>
    /\ all_rec_debug_logs = <<>>
    /\ warned = <<>>
    /\ main_pc = "merging"

Running(i) == tasks[i].state \in {"scan", "years"}

\* as_completed yields a future as soon as its call has started
Finished_started(i) == tasks[i].state # "queued"

\* future.done(): the call returned or raised
Finished(i) == tasks[i].state \in {"returned", "raised"}

workerUnchanged ==
    UNCHANGED <<HAS_POLARS, pc, call, ret, procVars, companies, num_workers, runs,
                consumed, aggVars, warned, main_pc>>

\* a free worker thread takes the oldest work item of the queue
StartTask(i) ==
    /\ tasks[i].state = "queued"
    /\ \A j \in 1..(i - 1) : tasks[j].state # "queued"
    /\ Cardinality({j \in DOMAIN tasks : Running(j)}) < num_workers
    /\ tasks' = [tasks EXCEPT ![i].state = "scan"]
    /\ workerUnchanged

\* process_company reads nothing but its own directory, so each of its steps
\* takes the task to the next entry of its course: ScanPass of the task here,
\* YearPass of the task in TaskYear
TaskScan(i) ==
    /\ tasks[i].state = "scan"
    /\ tasks' = [tasks EXCEPT ![i] = runs[i][1]]
    /\ workerUnchanged

TaskYear(i) ==
    /\ tasks[i].state = "years"
    /\ tasks[i].fy <= FISCAL_YEAR_MAX
    /\ tasks' = [tasks EXCEPT ![i] = runs[i][tasks[i].fy - FISCAL_YEAR_MIN + 2]]
    /\ workerUnchanged

TaskReturn(i) ==
    /\ tasks[i].state = "years"
    /\ tasks[i].fy > FISCAL_YEAR_MAX
    /\ tasks' = [tasks EXCEPT ![i].state = "returned"]
    /\ workerUnchanged

\* the body of the as_completed loop, for a finished future not yet yielded
HandleFuture(i) ==
    /\ main_pc = "merging"
    /\ i \notin consumed
    /\ Finished(i)
    /\ consumed' = consumed \cup {i}
    /\ \E agg \in {Aggregated(Aggregates, tasks[i])} :
          /\ all_mj_inputs' = agg.mj_inputs
          /\ all_missing_logs' = agg.missing_logs
          /\ all_duplicate_logs' = agg.duplicate_logs
          /\ all_rec_debug_logs' = agg.rec_debug_logs
    /\ warned' = IF tasks[i].state = "raised"
                 THEN Append(warned, companies[i].info.edinet_code)
                 ELSE warned
    /\ main_pc' = HandlerState(tasks[i].state)
    /\ UNCHANGED <<HAS_POLARS, pc, call, ret, procVars, companies, num_workers, runs, tasks>>

\* as_completed is exhausted and the with block of the executor is left
LeavePool ==
    /\ main_pc = "merging"
    /\ consumed = DOMAIN tasks
    /\ main_pc' = "writing"
    /\ UNCHANGED <<HAS_POLARS, pc, call, ret, procVars, companies, num_workers, runs,
                   tasks, consumed, aggVars, warned>>

\* the output files are written from the aggregates
WriteResults ==
    /\ main_pc = "writing"
    /\ main_pc' = "done"
    /\ UNCHANGED <<HAS_POLARS, pc, call, ret, procVars, companies, num_workers, runs,
                   tasks, consumed, aggVars, warned>>

NextMain ==
    \/ \E i \in DOMAIN tasks : StartTask(i)
    \/ \E i \in DOMAIN tasks : TaskScan(i)
    \/ \E i \in DOMAIN tasks : TaskYear(i)
    \/ \E i \in DOMAIN tasks : TaskReturn(i)
    \/ \E i \in DOMAIN tasks : HandleFuture(i)
    \/ LeavePool
    \/ WriteResults

\* the pool runs every thread that can run, and main goes on whenever it can
SpecMain == InitMain /\ [][NextMain]_vars /\ WF_vars(NextMain)

\* every step of a task is the step of process_company on the task's locals
TaskStepsAreProcessCompany ==
    [][\A i \in DOMAIN tasks :
          /\ tasks[i].state = "scan" /\ tasks'[i] # tasks[i] =>
                tasks'[i] = ScanPass(tasks[i], companies[i].info)
          /\ tasks[i].state = "years" /\ tasks[i].fy <= FISCAL_YEAR_MAX /\ tasks'[i] # tasks[i] =>
                tasks'[i] = YearPass(tasks[i], companies[i].info)
      ]_vars

\* sub occurs in seq as one run of consecutive entries
IsSegment(sub, seq) ==
    \E k \in 0..(Len(seq) - Len(sub)) : SubSeq(seq, k + 1, k + Len(sub)) = sub

\* the batch a task holds is in the four aggregates
BatchKept(t) ==
    /\ IsSegment(t.mj_inputs, all_mj_inputs)
    /\ IsSegment(t.missing_logs, all_missing_logs)
    /\ IsSegment(t.duplicate_logs, all_duplicate_logs)
    /\ IsSegment(t.rec_debug_logs, all_rec_debug_logs)

InSeq(x, seq) == \E k \in 1..Len(seq) : seq[k] = x

\* C14: an exception of one company's task is caught and reported as a
\* warning and does not abort the run: when main writes its output every task
\* has run to its end, the batch of every task that returned is merged, every
\* task that raised has its warning, and main always gets to the writing phase.
C14_FailureDoesNotAbort ==
    /\ [](main_pc \in {"writing", "done"} =>
             \A i \in DOMAIN tasks :
                /\ Finished(i)
                /\ tasks[i].state = "returned" => BatchKept(tasks[i])
                /\ tasks[i].state = "raised" <=> InSeq(companies[i].info.edinet_code, warned))
    /\ <>(main_pc = "writing")

\* the first company raises in fiscal year 2016; the second one's complete
\* record of 2015 is merged and the output is written
C14_Witness ==
    /\ main_pc = "done"
    /\ Len(companies) = 2
    /\ tasks[1].state = "raised"
    /\ tasks[1].fy = 2016
    /\ tasks[2].state = "returned"
    /\ warned = <<companies[1].info.edinet_code>>
    /\ Len(all_mj_inputs) = 1
    /\ all_mj_inputs[1].edinet_code = companies[2].info.edinet_code
    /\ all_mj_inputs[1].fiscal_year = 2015

\* C15: when a company's task fails part-way through its fiscal years, the
\* complete records and log entries it had produced for the years before the
\* failure are in the aggregated outputs the run writes.
C15_PartialResultsKept ==
    main_pc \in {"writing", "done"} =>
        \A i \in DOMAIN tasks : tasks[i].state = "raised" => BatchKept(tasks[i])

BagOf(seq) ==
    [x \in {seq[k] : k \in 1..Len(seq)} |-> Cardinality({k \in 1..Len(seq) : seq[k] = x})]

\* what process_company gives for the i-th company: the four lists at the end
\* of its course, and nothing when the course ends in an exception
ResultOf(i) ==
    LET last == runs[i][Len(runs[i])]
    IN  IF last.state = "raised"
        THEN [mj_inputs |-> <<>>, missing_logs |-> <<>>, duplicate_logs |-> <<>>,
              rec_debug_logs |-> <<>>]
        ELSE [mj_inputs |-> last.mj_inputs, missing_logs |-> last.missing_logs,
              duplicate_logs |-> last.duplicate_logs, rec_debug_logs |-> last.rec_debug_logs]

\* the rows of one output over the first n companies, as a multiset
RECURSIVE RowsOfCompanies(_, _)
RowsOfCompanies(n, output) ==
    IF n = 0 THEN EmptyBag
    ELSE RowsOfCompanies(n - 1, output) (+) BagOf(ResultOf(n)[output])

\* C28: whatever the number of workers and the order in which the tasks ran,
\* finished and were merged, when main writes its outputs each of the four
\* aggregates holds, as a multiset, the rows process_company gives for the
\* companies of the list, every task has been merged, and the rows of one
\* company are together and in the order process_company gave them.
C28_SchedulingIndependence ==
    main_pc \in {"writing", "done"} =>
        /\ consumed = DOMAIN tasks
        /\ BagOf(all_mj_inputs) = RowsOfCompanies(Len(companies), "mj_inputs")
        /\ BagOf(all_missing_logs) = RowsOfCompanies(Len(companies), "missing_logs")
        /\ BagOf(all_duplicate_logs) = RowsOfCompanies(Len(companies), "duplicate_logs")
        /\ BagOf(all_rec_debug_logs) = RowsOfCompanies(Len(companies), "rec_debug_logs")
        /\ \A i \in DOMAIN tasks : tasks[i].state = "returned" => BatchKept(tasks[i])

\* two workers, two companies with a complete record each, the second
\* company's batch merged first
C28_Witness ==
    /\ main_pc = "done"
    /\ num_workers = 2
    /\ Len(companies) = 2
    /\ \A i \in DOMAIN tasks : tasks[i].state = "returned" /\ Len(tasks[i].mj_inputs) = 1
    /\ Len(all_mj_inputs) = 2
    /\ all_mj_inputs[1] = tasks[2].mj_inputs[1]
    /\ all_mj_inputs[2] = tasks[1].mj_inputs[1]

-----------------------------------------------------------------------------
(* main under a user interrupt *)

\* KeyboardInterrupt is raised in the main thread while it waits in the
\* as_completed loop; it is no Exception, so the except clause lets it through
\* and the with block of the executor is left by way of its __exit__
Interrupt ==
    /\ main_pc = "merging"
    /\ main_pc' = "interrupted"
    /\ UNCHANGED <<HAS_POLARS, pc, call, ret, procVars, companies, num_workers, runs,
                   tasks, consumed, aggVars, warned>>

\* __exit__ is shutdown(wait=True): it cancels no pending future and joins the
\* worker threads, which run the work items still in the queue; then the
\* interrupt leaves main, and nothing is written
PoolDrained ==
    /\ main_pc = "interrupted"
    /\ \A i \in DOMAIN tasks : Finished(i)
    /\ main_pc' = "aborted"
    /\ UNCHANGED <<HAS_POLARS, pc, call, ret, procVars, companies, num_workers, runs,
                   tasks, consumed, aggVars, warned>>

NextInterrupt ==
    \/ NextMain
    \/ Interrupt
    \/ PoolDrained

SpecInterrupt == InitMain /\ [][NextInterrupt]_vars

\* C27: once the interrupt is raised, no task still in the queue is started,
\* and nothing more is added to the aggregated outputs.
C27_Cancellation ==
    [][main_pc = "interrupted" =>
          /\ \A i \in DOMAIN tasks : tasks[i].state = "queued" => tasks'[i].state = "queued"
          /\ aggVars' = aggVars
      ]_vars

-----------------------------------------------------------------------------
(* process_company against its course over another directory *)

\* the directory without the files whose metadata read fails
Readable(dir) == SelectSeq(dir, LAMBDA e : e.kind # "unreadable")

Unreadable(dir) == {dir[i].stem : i \in {k \in 1..Len(dir) : dir[k].kind = "unreadable"}}

\* the locals process_company returns for a directory
ReturnedFor(dir) ==
    LET run == RunFrom(ScanPass(Task("scan", dir), CompanyInfo), CompanyInfo)
    IN  run[Len(run)]

\* the files named anywhere in the four collections
FilesNamed ==
    {mj_inputs[k].tsv_path : k \in 1..Len(mj_inputs)}
    \cup {missing_logs[k].tsv_path : k \in 1..Len(missing_logs)}
    \cup {rec_debug_logs[k].tsv_path : k \in 1..Len(rec_debug_logs)}
    \cup {duplicate_logs[k].chosen_tsv : k \in 1..Len(duplicate_logs)}
    \cup {duplicate_logs[k].skipped_tsv : k \in 1..Len(duplicate_logs)}

\* C25: a filing whose metadata read fails stops nothing and leaves no trace:
\* it is neither among the eligible filings nor behind a wrong-standard reason,
\* no record and no log entry names it, and what process_company returns is
\* what it returns for the directory without that filing.
C25_UnreadableFilingSkipped ==
    /\ \A stem \in Unreadable(company_dir) :
          /\ \A k \in 1..Len(metas) : metas[k].doc_id # stem
          /\ PathStr(Path(EdinetCode, stem)) \notin FilesNamed
          /\ PathName(Path(EdinetCode, stem)) \notin FilesNamed
    /\ pc = "done" /\ Unreadable(company_dir) # {} =>
          \A r \in {ReturnedFor(Readable(company_dir))} :
              /\ r.state = "years"
              /\ metas = r.metas
              /\ non_japan_gaap_by_year = r.non_japan_gaap_by_year
              /\ mj_inputs = r.mj_inputs
              /\ missing_logs = r.missing_logs
              /\ duplicate_logs = r.duplicate_logs
              /\ rec_debug_logs = r.rec_debug_logs

\* a finished run over an unreadable file between two filings of 2015, with
\* the record of 2015 and the one duplicate-filing entry
C25_Witness ==
    /\ pc = "done"
    /\ Len(company_dir) = 3
    /\ company_dir[2].kind = "unreadable"
    /\ Len(metas) = 2
    /\ Len(RecordsOf(2015)) = 1
    /\ Len(DuplicatesOf(2015)) = 1

====
